---- MODULE Spec2Model ----
(***************************************************************************)
(* libConCoCt: the grading pipeline ConCoCt.check_project                  *)
(* (static analysis -> compile -> isolated unit-test run), the two         *)
(* isolation backends DockerRunner and VMRunner, and the diagnostic        *)
(* parsers, as a state machine.  External tools (cppcheck, gcc, the        *)
(* container runtime, the hypervisor, the remote shell) are the            *)
(* environment: each call to one of them is a step whose outcome is chosen *)
(* nondeterministically among the outcomes the tool can produce.           *)
(***************************************************************************)
EXTENDS Integers, Sequences, FiniteSets, TLC

VARIABLES
    backend,      \* ConCoCt.backend
    calls,        \* number of check_project calls started on this pipeline
    pc,           \* position inside check_project / runner.run
    tempdir,      \* project.tempdir
    r,            \* Report.parts of the running call
    last_r,       \* the local _r of check_project
    launched,     \* tools launched by the running call, in order
    rcs,          \* exit codes the stages' tools produced in the running call
    exc,          \* exception propagating out of check_project
    scratch,      \* contents of ConCoCt.tempdir
    result,       \* value returned by runner.run
    parsed,       \* CunitParser.parse has been invoked in the running call
    images,       \* image tags present in the container runtime
    containers,   \* containers present in the container runtime, with state
    cont,         \* DockerRunner: container created by the running call
    cont_file,    \* /CUnitAutomated-Results.xml inside the container
    stop_caller,  \* call site stop_container returns to
    created,      \* runtime objects the running call created
    dlog,         \* client calls issued by the running DockerRunner.run
    timed_out,    \* the isolated execution exceeded its deadline
    vm_running,   \* hypervisor: VM "Testrunner" is running
    session,      \* an SSH session to the VM is open
    remote,       \* VMRunner.remote_path on the VM
    return_code,  \* local return_code / ret_val of the runner
    data,         \* local data of the runner
    vlog,         \* steps taken by the running VMRunner.run
    wk,           \* grading runs under way on the host, one per worker
    dirs,         \* scratch directories that exist on the host
    files,        \* which run wrote into which scratch directory
    reg,          \* image tags in the container runtime shared by the runs
    vmdir,        \* VMRunner.remote_path on the VM shared by the runs
    env,          \* prerequisites the host offers to check_env
    probe,        \* outcome of check_env on env
    proj,         \* what a Task factory was given and what Project(...) made of it
    pin,          \* a tool output handed to its parser
    pout,         \* what the parser made of pin
    vmrunner,     \* the VMRunner object the unit-test stage or a caller constructed
    img_exe       \* the call whose executable the image autotest/<target> holds

vars == << backend, calls, pc, tempdir, r, last_r, launched, rcs, exc, scratch,
           result, parsed, images, containers, cont, cont_file, stop_caller,
           created, dlog, timed_out, vm_running, session, remote, return_code,
           data, vlog, wk, dirs, files, reg, vmdir, env, probe, proj, pin, pout,
           vmrunner, img_exe >>

inputVars == << proj, pin, pout, vmrunner >>
hostVars == << wk, dirs, files, reg, vmdir, env, probe, inputVars >>

(***************************************************************************)
(* Bounds                                                                  *)
(***************************************************************************)
MaxCalls == 2
MaxWorkers == 2
MaxMajor == 2
MaxMinor == 3
MaxErrors == 2
MaxLines == 3
MaxRecords == 2

(***************************************************************************)
(* Python values                                                           *)
(***************************************************************************)
None == "None"

\* file contents of a unit-test report
EmptyFile == [empty |-> TRUE, wf |-> FALSE, suites |-> << >>]
NotXml    == [empty |-> FALSE, wf |-> FALSE, suites |-> << >>]
DocPass   == [empty |-> FALSE, wf |-> TRUE,
              suites |-> << [kind |-> "success", name |-> "Suite1",
                             records |-> << [kind |-> "success", test |-> "t1",
                                             file |-> None, line |-> None, cond |-> None] >>] >>]
DocFail   == [empty |-> FALSE, wf |-> TRUE,
              suites |-> << [kind |-> "success", name |-> "Suite1",
                             records |-> << [kind |-> "failure", test |-> "t1",
                                             file |-> "test.c", line |-> "12", cond |-> "x > 0"],
                                            [kind |-> "success", test |-> "t2",
                                             file |-> None, line |-> None, cond |-> None] >>] >>]
DocNoVerdict == [empty |-> FALSE, wf |-> TRUE,
              suites |-> << [kind |-> "neither", name |-> "Suite1", records |-> << >>] >>]

\* the executable registered no suite: a results document without any
\* CUNIT_RUN_SUITE element
DocNoSuites == [empty |-> FALSE, wf |-> TRUE, suites |-> << >>]

ArtifactContents == {EmptyFile, NotXml, DocPass, DocFail, DocNoVerdict, DocNoSuites}

\* values a runner hands back as data
PyNone        == [t |-> "None", content |-> EmptyFile]
EmptyStr      == [t |-> "str", content |-> EmptyFile]
Bytes(d)      == [t |-> "bytes", content |-> d]
ReportPartObj == [t |-> "ReportPart", content |-> EmptyFile]

\* Python truthiness of a data value: None, '' and b'' are false
Truthy(v) == ~(v.t = "None" \/ (v.t \in {"str", "bytes"} /\ v.content.empty))

\* Python truthiness of an int
TruthyInt(n) == n # 0

(***************************************************************************)
(* report.py                                                               *)
(***************************************************************************)
Message(type, file, line, desc) ==
    [type |-> type, file |-> file, line |-> line, desc |-> desc]

NoTests == [isNone |-> TRUE, entries |-> {}]
Tests(entries) == [isNone |-> FALSE, entries |-> entries]

ReportPart_testsDefaultEmpty(source, returncode, messages, tests) ==
    [source |-> source, returncode |-> returncode, messages |-> messages,
     tests |-> IF tests.isNone THEN Tests({}) ELSE tests]
ReportPart(source, returncode, messages, tests) ==
    [source |-> source, returncode |-> returncode, messages |-> messages, tests |-> tests]

Report_add_part_prepend(parts, report_part) == << report_part >> \o parts
Report_add_part(parts, report_part) == Append(parts, report_part)

\* what __str__ hands back: the text, or the exception it raised
Text(s) == [raised |-> "none", s |-> s]
StrRaised(e) == [raised |-> e, s |-> ""]

\* Message.__str__: '{} {}:{} {}...'.format(type, file, line, desc[:40]);
\* None cannot be sliced (TypeError), format writes None as 'None'
Message_str(m) ==
    LET format(v) == IF v = None THEN "None" ELSE v
    IN  IF m.desc = None THEN StrRaised("TypeError")
        ELSE Text(m.type \o " " \o format(m.file) \o ":" \o format(m.line) \o " "
                  \o (IF Len(m.desc) <= 40 THEN m.desc ELSE SubSeq(m.desc, 1, 40))
                  \o "...")

RECURSIVE MessageLines(_)
\* the loop of ReportPart.__str__: ret += '  ' + str(m) + '\n'
MessageLines(messages) ==
    IF messages = << >> THEN Text("")
    ELSE LET head == Message_str(Head(messages))
             rest == MessageLines(Tail(messages))
         IN  IF head.raised # "none" THEN head
             ELSE IF rest.raised # "none" THEN rest
             ELSE Text("  " \o head.s \o "\n" \o rest.s)

\* ReportPart.__str__: '{} {}\n'.format(source, returncode), then the messages
ReportPart_str(p) ==
    LET lines == MessageLines(p.messages)
    IN  IF lines.raised # "none" THEN lines
        ELSE Text(p.source \o " " \o ToString(p.returncode) \o "\n" \o lines.s)

RECURSIVE Report_str(_)
\* Report.__str__: ret += str(p) over self.parts
Report_str(parts) ==
    IF parts = << >> THEN Text("")
    ELSE LET head == ReportPart_str(Head(parts))
             rest == Report_str(Tail(parts))
         IN  IF head.raised # "none" THEN head
             ELSE IF rest.raised # "none" THEN rest
             ELSE Text(head.s \o rest.s)

\* Python truthiness of ReportPart.tests: None and the empty mapping are false
TruthyTests(tests) == ~tests.isNone /\ tests.entries # {}

\* json.dumps of a Message field: None becomes null, a str a JSON string
JsonValue(v) ==
    IF v = None THEN [json |-> "null", s |-> ""] ELSE [json |-> "string", s |-> v]

\* ReportJSONEncoder.default on a Message: every instance field
Message_default(m) ==
    [type |-> JsonValue(m.type), file |-> JsonValue(m.file),
     line |-> JsonValue(m.line), desc |-> JsonValue(m.desc)]

\* ReportJSONEncoder.default on a ReportPart: "if obj.tests:" decides on the
\* tests key
ReportPart_default(obj) ==
    [returncode |-> obj.returncode,
     messages   |-> [i \in 1..Len(obj.messages) |-> Message_default(obj.messages[i])],
     tests      |-> IF TruthyTests(obj.tests)
                    THEN [present |-> TRUE, entries |-> obj.tests.entries]
                    ELSE [present |-> FALSE, entries |-> {}]]

\* report_object[key] = value on a dict that keeps insertion order
DictSet(d, key, value) ==
    IF \E i \in 1..Len(d) : d[i].key = key
    THEN [i \in 1..Len(d) |-> IF d[i].key = key THEN [key |-> key, value |-> value] ELSE d[i]]
    ELSE Append(d, [key |-> key, value |-> value])

RECURSIVE Report_default(_, _)
\* ReportJSONEncoder.default on a Report: the loop over obj.parts from part i on
Report_default(parts, report_object) ==
    IF parts = << >> THEN report_object
    ELSE Report_default(Tail(parts),
                        DictSet(report_object, Head(parts).source,
                                ReportPart_default(Head(parts))))

\* Report.to_json: the JSON object as its members in the order written
Report_to_json(parts) == Report_default(parts, << >>)

(***************************************************************************)
(* checker.py                                                              *)
(***************************************************************************)
\* stderr texts cppcheck can leave: not XML at all (empty, usage text), or a
\* results document with its <error> elements
CppcheckNotXml   == [wf |-> FALSE, errors |-> << >>]
CppcheckClean    == [wf |-> TRUE, errors |-> << >>]
CppcheckOneError == [wf |-> TRUE, errors |->
    << [severity |-> "error", verbose |-> "Array index out of bounds",
        locations |-> << [file |-> "sol.c", line |-> "7"], [file |-> "sol.c", line |-> "3"] >>] >>]
CppcheckTwo      == [wf |-> TRUE, errors |->
    << [severity |-> "style", verbose |-> "Variable 'x' is assigned a value that is never used",
        locations |-> << [file |-> "sol.c", line |-> "5"] >>],
       [severity |-> "information", verbose |-> "Cppcheck cannot find all the include files",
        locations |-> << >>] >>]

CppcheckOutputs == {CppcheckNotXml, CppcheckClean, CppcheckOneError, CppcheckTwo}

\* exit codes drawn for cppcheck, gcc and the unit-test executable
ExitCodes == {0, 1}

\* one Message for an <error> element: first location is primary
CppCheckMessage_swapped(e) ==
    Message(e.verbose,
            IF Len(e.locations) > 0 THEN e.locations[1].file ELSE "",
            IF Len(e.locations) > 0 THEN e.locations[1].line ELSE "",
            e.severity)
CppCheckMessage_lastLocation(e) ==
    Message(e.severity,
            IF Len(e.locations) > 0 THEN e.locations[Len(e.locations)].file ELSE "",
            IF Len(e.locations) > 0 THEN e.locations[Len(e.locations)].line ELSE "",
            e.verbose)
CppCheckMessage(e) ==
    Message(e.severity,
            IF Len(e.locations) > 0 THEN e.locations[1].file ELSE "",
            IF Len(e.locations) > 0 THEN e.locations[1].line ELSE "",
            e.verbose)

\* CppCheckParser.parse: xml.etree raises ParseError on text that is not XML
CppCheckParser_parse(d) ==
    IF ~d.wf
    THEN [raised |-> "ParseError", messages |-> << >>]
    ELSE [raised |-> "none",
          messages |-> [i \in 1..Len(d.errors) |-> CppCheckMessage(d.errors[i])]]

(***************************************************************************)
(* compiler.py                                                             *)
(***************************************************************************)
NoGroup == -1

gcc_patterns ==
  << [type |-> "ignore", file |-> NoGroup, line |-> NoGroup, desc |-> NoGroup],
     [type |-> "ignore", file |-> NoGroup, line |-> NoGroup, desc |-> NoGroup],
     [type |-> "ignore", file |-> NoGroup, line |-> NoGroup, desc |-> NoGroup],
     [type |-> "error", file |-> 0, line |-> 1, desc |-> 3],
     [type |-> "error", file |-> 0, line |-> 1, desc |-> 3],
     [type |-> "error", file |-> 0, line |-> 1, desc |-> 3],
     [type |-> "warning", file |-> 0, line |-> 1, desc |-> 3],
     [type |-> "warning", file |-> 0, line |-> 1, desc |-> 3],
     [type |-> "warning", file |-> 0, line |-> 1, desc |-> 4],
     [type |-> "info", file |-> 0, line |-> 1, desc |-> 3],
     [type |-> "error", file |-> 0, line |-> 1, desc |-> 6],
     [type |-> "warning", file |-> 0, line |-> 1, desc |-> 6],
     [type |-> "info", file |-> 0, line |-> 1, desc |-> 8],
     [type |-> "error", file |-> 0, line |-> 1, desc |-> 3] >>

ld_patterns ==
  << [type |-> "ignore", file |-> 0, line |-> NoGroup, desc |-> 2],
     [type |-> "warning", file |-> 0, line |-> 1, desc |-> 4],
     [type |-> "warning", file |-> 0, line |-> NoGroup, desc |-> 1],
     [type |-> "error", file |-> 0, line |-> NoGroup, desc |-> 1],
     [type |-> "warning", file |-> NoGroup, line |-> NoGroup, desc |-> 2],
     [type |-> "error", file |-> NoGroup, line |-> NoGroup, desc |-> 2] >>

\* stderr lines gcc can print
LineError     == "sol.c:3:5: error: expected ; before return"
LineEachUndec == "sol.c:4: error: (Each undeclared identifier is reported only once"
LineLd        == "/usr/bin/ld: cannot find -lcunit"
LineBlank     == ""
LineDangerous == "sol.c:9: warning: the use of `gets' is dangerous, better use `fgets'"

\* p['cpattern'].match(l).groups() of rule i of a family on line l, << >> when
\* the rule does not match (every rule has at least one group)
gcc_match(i, l) ==
    CASE l = LineError /\ i = 11 ->
           << "sol.c", "3", "5:", "error", "error", None, "expected ; before return" >>
      [] l = LineError /\ i = 14 ->
           << "sol.c", "3", "5:", "error: expected ; before return" >>
      [] l = LineEachUndec /\ i = 1 -> << "sol.c", "4", None >>
      [] l = LineEachUndec /\ i = 11 ->
           << "sol.c", "4", None, "error", "error", None,
              "(Each undeclared identifier is reported only once" >>
      [] l = LineEachUndec /\ i = 14 ->
           << "sol.c", "4", None, "error: (Each undeclared identifier is reported only once" >>
      [] l = LineDangerous /\ i = 9 ->
           << "sol.c", "9", None, "warning:",
              "the use of `gets' is dangerous, better use `fgets'", "gets", "fgets" >>
      [] l = LineDangerous /\ i = 12 ->
           << "sol.c", "9", None, "warning", "warning", None,
              "the use of `gets' is dangerous, better use `fgets'" >>
      [] l = LineDangerous /\ i = 14 ->
           << "sol.c", "9", None,
              "warning: the use of `gets' is dangerous, better use `fgets'" >>
      [] OTHER -> << >>

ld_match(i, l) ==
    CASE l = LineLd /\ i = 6 -> << "/usr/bin/", None, "cannot find -lcunit" >>
      [] l = LineDangerous /\ i = 2 ->
           << "sol.c", "9", None, "warning:",
              "the use of `gets' is dangerous, better use `fgets'", "gets", "fgets" >>
      [] OTHER -> << >>

\* the Message a matching rule p builds from the groups
RuleMessage(p, groups) ==
    Message(p.type,
            IF p.file = NoGroup THEN None ELSE groups[p.file + 1],
            IF p.line = NoGroup THEN None ELSE groups[p.line + 1],
            IF p.desc = NoGroup THEN None ELSE groups[p.desc + 1])

\* the loop over a family left at the first rule that matches
FamilyMessages_firstMatchOnly(family, i, l) ==
    LET groups(j) == IF family = gcc_patterns THEN gcc_match(j, l) ELSE ld_match(j, l)
        hits == { j \in i..Len(family) : groups(j) # << >> }
    IN  IF hits = {} THEN << >>
        ELSE LET j == CHOOSE j \in hits : \A k \in hits : j <= k
             IN  << RuleMessage(family[j], groups(j)) >>

RECURSIVE FamilyMessages(_, _, _)
\* messages of the rules i..Len(family) of a family on line l, in rule order
FamilyMessages(family, i, l) ==
    IF i > Len(family) THEN << >>
    ELSE LET groups == IF family = gcc_patterns THEN gcc_match(i, l) ELSE ld_match(i, l)
         IN  (IF groups # << >> THEN << RuleMessage(family[i], groups) >> ELSE << >>)
             \o FamilyMessages(family, i + 1, l)

RECURSIVE CompilerGccParser_parse(_)
\* CompilerGccParser.parse over data.split('\n')
CompilerGccParser_parse(lines) ==
    IF lines = << >> THEN << >>
    ELSE FamilyMessages(gcc_patterns, 1, Head(lines))
         \o FamilyMessages(ld_patterns, 1, Head(lines))
         \o CompilerGccParser_parse(Tail(lines))

\* stderr texts gcc can leave, split into lines
GccOutputs == { << LineBlank >>,
                << LineError, LineBlank >>,
                << LineError, LineEachUndec, LineBlank >>,
                << LineLd, LineBlank >> }

(***************************************************************************)
(* unittest.py: CunitParser                                                *)
(***************************************************************************)
\* CunitParser.add_test_result: list_of_tests[suite][test] = success
add_test_result_defaultVerdict(tests, suite_name, test_name, success) ==
    { e \in tests : ~(e[1] = suite_name /\ e[2] = test_name) }
        \cup { << suite_name, test_name, FALSE >> }
add_test_result(tests, suite_name, test_name, success) ==
    { e \in tests : ~(e[1] = suite_name /\ e[2] = test_name) }
        \cup { << suite_name, test_name, success >> }

RECURSIVE ParseRecords(_, _, _)
\* the loop over the CUNIT_RUN_TEST_RECORD elements of one suite
ParseRecords(s_name, recs, acc) ==
    IF recs = << >> \/ acc.raised # "none" THEN acc
    ELSE LET t == Head(recs)
         IN  IF t.kind = "failure"
             THEN ParseRecords(s_name, Tail(recs),
                    [raised |-> "none",
                     messages |-> Append(acc.messages,
                         Message("error", t.file, t.line,
                                 s_name \o " - " \o t.test \o " - Condition: " \o t.cond)),
                     tests |-> add_test_result(acc.tests, s_name, t.test, FALSE)])
             ELSE IF t.kind = "success"
             THEN ParseRecords(s_name, Tail(recs),
                    [acc EXCEPT !.tests = add_test_result(acc.tests, s_name, t.test, TRUE)])
             ELSE [acc EXCEPT !.raised = "AssertionError"]

RECURSIVE ParseSuites(_, _)
\* the loop over the CUNIT_RUN_SUITE elements
ParseSuites(suites, acc) ==
    IF suites = << >> \/ acc.raised # "none" THEN acc
    ELSE LET s == Head(suites)
         IN  IF s.kind \in {"failure", "success"}
             THEN ParseSuites(Tail(suites), ParseRecords(s.name, s.records, acc))
             ELSE [acc EXCEPT !.raised = "AssertionError"]

\* CunitParser.parse on a fresh parser
CunitParser_parse_assertsOff(d) ==
    IF ~Truthy(d) THEN [raised |-> "ValueError", messages |-> << >>, tests |-> {}]
    ELSE IF d.t = "ReportPart" THEN [raised |-> "TypeError", messages |-> << >>, tests |-> {}]
    ELSE IF ~d.content.wf THEN [raised |-> "ParseError", messages |-> << >>, tests |-> {}]
    ELSE [ParseSuites(d.content.suites, [raised |-> "none", messages |-> << >>, tests |-> {}])
             EXCEPT !.raised = "none"]
CunitParser_parse(d) ==
    IF ~Truthy(d) THEN [raised |-> "ValueError", messages |-> << >>, tests |-> {}]
    ELSE IF d.t = "ReportPart" THEN [raised |-> "TypeError", messages |-> << >>, tests |-> {}]
    ELSE IF ~d.content.wf THEN [raised |-> "ParseError", messages |-> << >>, tests |-> {}]
    ELSE ParseSuites(d.content.suites, [raised |-> "none", messages |-> << >>, tests |-> {}])

(***************************************************************************)
(* concoct.py: ConCoCt.check_env, Project.target, Task                     *)
(***************************************************************************)
\* ConCoCt.__init__(self, backend='vm'): the default, and the values a caller
\* can pass: the two names, a misspelt one, an unknown one, None
DefaultBackend == "vm"
Backends == {"docker", DefaultBackend, "Docker", "lxc", None}

\* versions of the docker library the probe is tried on: 0.0 .. MaxMajor.MaxMinor
Versions == (0..MaxMajor) \X (0..MaxMinor)

\* what the host offers: the four binaries, whether "docker info" is allowed,
\* whether ld finds libcunit, and docker.version as (major, minor)
Envs ==
    [ gcc : BOOLEAN, cppcheck : BOOLEAN, docker : {"missing", "denied", "ok"},
      ld : BOOLEAN, cunit : BOOLEAN, version : Versions ]

GoodEnv ==
    [ gcc |-> TRUE, cppcheck |-> TRUE, docker |-> "ok", ld |-> TRUE,
      cunit |-> TRUE, version |-> << 1, 2 >> ]

\* "if version_info[0] < 1 or version_info[0] == 1 and version_info[1] < 2: raise"
VersionAccepted_bothAtLeast(version_info) == version_info[1] >= 1 /\ version_info[2] >= 2
VersionAccepted(version_info) ==
    ~(version_info[1] < 1 \/ (version_info[1] = 1 /\ version_info[2] < 2))

\* check_env: the message of the FileNotFoundError it raises, or "ok"
check_env_ldExitIgnored(e) ==
    IF ~e.gcc THEN "gcc not found!"
    ELSE IF ~e.cppcheck THEN "cppcheck not found!"
    ELSE IF e.docker = "missing" THEN "docker not found!"
    ELSE IF e.docker = "denied" THEN "docker found but permission denied!"
    ELSE IF ~e.ld THEN "ld not found!"
    ELSE IF ~VersionAccepted(e.version) THEN "docker-py version to old!"
    ELSE "ok"
check_env(e) ==
    IF ~e.gcc THEN "gcc not found!"
    ELSE IF ~e.cppcheck THEN "cppcheck not found!"
    ELSE IF e.docker = "missing" THEN "docker not found!"
    ELSE IF e.docker = "denied" THEN "docker found but permission denied!"
    ELSE IF ~e.ld THEN "ld not found!"
    ELSE IF ~e.cunit THEN "cunit not found!"
    ELSE IF ~VersionAccepted(e.version) THEN "docker-py version to old!"
    ELSE "ok"

\* check_env got as far as "ld -lcunit -o<tempdir>/__ld_check.out" and the
\* link wrote its output
LdWrites(e) == e.gcc /\ e.cppcheck /\ e.docker = "ok" /\ e.ld /\ e.cunit

\* names of the tasks graded: Task.name, handed to Project as project_name
TaskNames == {"greaterZero", "leapyear"}

\* Project.__init__: base64 of the project name, lower-cased, "=" removed
Target(project_name) ==
    CASE project_name = "greaterZero" -> "z3jlyxrlclplcm8"
      [] project_name = "leapyear"    -> "bgvhchllyxi"

\* DockerRunner.run: img = 'autotest/' + project.target
ImageTag(target) == "autotest/" \o target

\* VMRunner.__init__: self.remote_path
remote_path == "/home/testrunner/runner/"

\* VMRunner.run: os.path.join(self.remote_path, os.path.basename(f))
RemoteFileName(f) == remote_path \o f

\* the grading runs that can be under way at the same time
Workers == 1..MaxWorkers

\* names tempfile can give a new directory: those not in use
DirNames == 1..MaxWorkers
TemporaryDirectory_fixed(existing) == {1}
TemporaryDirectory(existing) == DirNames \ existing

IdleWorker ==
    [ pc |-> "idle", task |-> "", backend |-> "", dir |-> 0, img_exe |-> 0,
      data |-> 0, exc |-> "none" ]

\* named files with the run whose executable or output they hold
Has(fs, name) == \E f \in fs : f[1] = name
Get(fs, name) == (CHOOSE f \in fs : f[1] = name)[2]
Put(fs, name, w) == { f \in fs : f[1] # name } \cup { << name, w >> }
Del(fs, name) == { f \in fs : f[1] # name }

NoVmDir == [dir |-> FALSE, files |-> {}]
EmptyVmDir == [dir |-> TRUE, files |-> {}]

(***************************************************************************)
(* concoct.py: Project, Task, Solution                                     *)
(***************************************************************************)
\* the task directory of the example: config.json of tasks/greaterZero
ExampleTask ==
    [ name |-> "greaterZero", libs |-> << "cunit" >>,
      files |-> << "greaterZero.h" >>,
      files_main |-> << "main.c" >>,
      files_test |-> << "test.c" >>,
      files_student |-> << "student.c" >> ]

\* os.path.join(self.path, self.src_dir, f), and the include directory
src_root == "tasks/greaterZero/src"
JoinSrc(f) == src_root \o "/" \o f

\* Solution.__init__: a solution_file_list that is None or empty becomes []
NoSolution == [given |-> FALSE, solution_file_list |-> << >>]
Solution(solution_file_list) == [given |-> TRUE, solution_file_list |-> solution_file_list]

\* "if solution:" of the factories: an object without __bool__ and __len__ is
\* true, None is false
SolutionTruthy(solution) == solution.given

\* solutions handed to the factories: none, one without files, one or two files
Solutions ==
    { NoSolution, Solution(<< >>), Solution(<< "sol/solution.c" >>),
      Solution(<< "sol/solution.c", "sol/helper.c" >>) }

\* every path a factory can put into a file_list, and what can be on disk
AllPaths ==
    { JoinSrc(f) : f \in {"greaterZero.h", "main.c", "test.c", "student.c"} }
        \cup {"sol/solution.c", "sol/helper.c"}
Disks == SUBSET AllPaths

\* the list comprehension over a list of file names
JoinAll(fs) == [i \in 1..Len(fs) |-> JoinSrc(fs[i])]

\* file_list of get_main_project ("main") and get_test_project ("test")
Task_file_list(task, kind, solution) ==
    JoinAll(task.files)
        \o JoinAll(IF kind = "main" THEN task.files_main ELSE task.files_test)
        \o (IF SolutionTruthy(solution) THEN solution.solution_file_list
            ELSE JoinAll(task.files_student))

\* include_list of both factories
Task_include_list(task) == << src_root >>

NoProject ==
    [ state |-> "none", kind |-> "", solution |-> NoSolution, disk |-> {},
      project_name |-> "", file_list |-> << >>, libs |-> << >>, include |-> << >>,
      target |-> "", tempdir |-> None, exc |-> "none" ]

\* Project.__init__: the fields are set, then every path must be a file
Project_init_unchecked(project_name, file_list, libs, includes, disk) ==
    [ NoProject EXCEPT
        !.state = "made", !.project_name = project_name, !.file_list = file_list,
        !.libs = libs, !.include = includes, !.target = Target(project_name) ]
Project_init(project_name, file_list, libs, includes, disk) ==
    IF \A i \in 1..Len(file_list) : file_list[i] \in disk
    THEN [ NoProject EXCEPT
             !.state = "made", !.project_name = project_name, !.file_list = file_list,
             !.libs = libs, !.include = includes, !.target = Target(project_name) ]
    ELSE [ NoProject EXCEPT
             !.state = "raised", !.file_list = file_list, !.exc = "FileNotFoundError" ]

\* VMRunner.__init__: self.shutdown_vm_after = shutdown_vm_after
NoRunner == [made |-> FALSE, shutdown_vm_after |-> FALSE]
VMRunner_init(flag) == [made |-> TRUE, shutdown_vm_after |-> flag]

NoInput == [tool |-> "none", text |-> << >>]
NoOutput == [state |-> "none", raised |-> "none", messages |-> << >>, tests |-> {},
             json |-> << >>, str |-> ""]

(***************************************************************************)
(* State after construction of the pipeline                                *)
(***************************************************************************)
Img == "autotest/target"

NoResult == [error_code |-> 0, data |-> PyNone, set |-> FALSE]
Result(error_code, d) == [error_code |-> error_code, data |-> d, set |-> TRUE]

NoRemoteFile == [present |-> FALSE, by |-> 0, content |-> EmptyFile]
RemoteFile(by, content) == [present |-> TRUE, by |-> by, content |-> content]

InitPipeline ==
    /\ backend \in Backends
    /\ calls = 0
    /\ pc = "idle"
    /\ tempdir = None
    /\ r = << >>
    /\ last_r = ReportPart("", 0, << >>, NoTests)
    /\ launched = << >>
    /\ rcs = {}
    /\ exc = "none"
    /\ scratch = [exe |-> 0, dockerfile |-> FALSE]
    /\ result = NoResult
    /\ parsed = FALSE
    /\ images = {}
    /\ img_exe = 0
    /\ containers = << >>
    /\ cont = 0
    /\ cont_file = NoRemoteFile
    /\ stop_caller = "none"
    /\ created = {}
    /\ dlog = << >>
    /\ timed_out = FALSE
    /\ vm_running \in BOOLEAN
    /\ session = FALSE
    /\ remote = [dir |-> FALSE, exe |-> 0, xml |-> NoRemoteFile]
    /\ return_code = 0
    /\ data = PyNone
    /\ vlog = << >>

\* no grading run under way, nothing of theirs on the host
HostIdle ==
    /\ wk = [w \in Workers |-> IdleWorker]
    /\ dirs = {}
    /\ files = {}
    /\ reg = {}
    /\ vmdir = NoVmDir
    /\ proj = NoProject
    /\ pin = NoInput
    /\ pout = NoOutput
    /\ vmrunner = NoRunner

\* one pipeline, constructed on a host where check_env passed
Init ==
    /\ InitPipeline
    /\ backend \in {"docker", DefaultBackend}
    /\ HostIdle
    /\ env = GoodEnv
    /\ probe = check_env(GoodEnv)

dockerVars == << images, img_exe, containers, cont, cont_file, stop_caller, created, dlog >>
vmVars     == << vm_running, session, remote, vlog >>
runVars    == << return_code, data, timed_out, result, parsed >>

(***************************************************************************)
(* concoct.py: ConCoCt.check_project                                       *)
(***************************************************************************)
\* an exception leaves check_project: nothing after the raising statement runs
Raise(e) ==
    /\ exc' = e
    /\ pc' = "raised"

\* "if _r.returncode == 0" guarding the compiler
RunCompilerIf_always(part) == TRUE
RunCompilerIf(part) == part.returncode = 0

\* "if _r.returncode == 0" guarding the unit tests
RunUnitTestsIf_always(part) == TRUE
RunUnitTestsIf(part) == part.returncode = 0

\* check_project is entered: project.tempdir = self.tempdir.name; r = Report()
check_project ==
    /\ pc \in {"idle", "returned", "raised"}
    /\ calls < MaxCalls
    /\ calls' = calls + 1
    /\ pc' = "cppcheck"
    /\ tempdir' = "scratch"
    /\ r' = << >>
    /\ last_r' = ReportPart("", 0, << >>, NoTests)
    /\ launched' = << >>
    /\ rcs' = {}
    /\ exc' = "none"
    /\ result' = NoResult
    /\ parsed' = FALSE
    /\ cont' = 0
    /\ cont_file' = NoRemoteFile
    /\ stop_caller' = "none"
    /\ created' = {}
    /\ dlog' = << >>
    /\ timed_out' = FALSE
    /\ return_code' = 0
    /\ data' = PyNone
    /\ vlog' = << >>
    /\ UNCHANGED << backend, scratch, images, img_exe, containers, vm_running, session, remote >>
    /\ UNCHANGED hostVars

\* _r = CppCheck().check(project); r.add_part(_r); first "if"
CppCheck_check ==
    /\ pc = "cppcheck"
    /\ \E rc \in ExitCodes, errs \in CppcheckOutputs :
         LET res  == CppCheckParser_parse(errs)
             part == ReportPart("cppcheck", rc, res.messages, NoTests)
         IN  /\ launched' = Append(launched, "cppcheck")
             /\ rcs' = rcs \cup { << "cppcheck", rc >> }
             /\ IF res.raised # "none"
                THEN /\ Raise(res.raised)
                     /\ UNCHANGED << r, last_r >>
                ELSE /\ r' = Report_add_part(r, part)
                     /\ last_r' = part
                     /\ exc' = exc
                     /\ pc' = IF RunCompilerIf(part) THEN "gcc"
                              ELSE IF RunUnitTestsIf(part) THEN "cunit" ELSE "finish"
    /\ UNCHANGED << backend, calls, tempdir, scratch >>
    /\ UNCHANGED << dockerVars, vmVars, runVars >>
    /\ UNCHANGED hostVars

\* _r = CompilerGcc().compile(project); r.add_part(_r); second "if".
\* gcc writes tempdir/target when it succeeds.
CompilerGcc_compile ==
    /\ pc = "gcc"
    /\ \E rc \in ExitCodes, errs \in GccOutputs :
         LET part == ReportPart("gcc", rc, CompilerGccParser_parse(errs), NoTests)
         IN  /\ launched' = Append(launched, "gcc")
             /\ rcs' = rcs \cup { << "gcc", rc >> }
             /\ scratch' = IF rc = 0 THEN [scratch EXCEPT !.exe = calls] ELSE scratch
             /\ r' = Report_add_part(r, part)
             /\ last_r' = part
             /\ pc' = IF RunUnitTestsIf(part) THEN "cunit" ELSE "finish"
    /\ UNCHANGED << backend, calls, tempdir, exc >>
    /\ UNCHANGED << dockerVars, vmVars, runVars >>
    /\ UNCHANGED hostVars

\* CunitChecker.run: backend selection
SelectRunner_swapped(b) == IF b = "docker" THEN "VMRunner" ELSE "DockerRunner"
SelectRunner(b) == IF b = "docker" THEN "DockerRunner" ELSE "VMRunner"

\* checker = CunitChecker(backend); checker.run(project) constructs the runner
\* (DockerRunner.__init__ calls client.info(), which fails without a daemon)
CunitChecker_run ==
    /\ pc = "cunit"
    /\ launched' = Append(launched, SelectRunner(backend))
    /\ IF SelectRunner(backend) = "DockerRunner"
       THEN \E ok \in BOOLEAN :
              IF ok THEN pc' = "build_image" /\ exc' = exc
                    ELSE Raise("ConnectionError")
       ELSE pc' = "start_VM" /\ exc' = exc
    /\ vmrunner' = IF SelectRunner(backend) = "VMRunner" THEN VMRunner_init(FALSE)
                   ELSE vmrunner
    /\ UNCHANGED << backend, calls, tempdir, r, last_r, rcs, scratch >>
    /\ UNCHANGED << dockerVars, vmVars, runVars >>
    /\ UNCHANGED << wk, dirs, files, reg, vmdir, env, probe, proj, pin, pout >>

\* "if error_code:" of CunitChecker.run
SkipParse_positive(error_code) == error_code > 0
SkipParse(error_code) == TruthyInt(error_code)

\* where CunitChecker.run returns to: check_project, which goes on to its last
\* two statements, or a caller that invoked the checker on its own
CunitChecker_caller ==
    IF launched # << >> /\ Head(launched) = "cppcheck" THEN "finish" ELSE "returned"

\* the rest of CunitChecker.run once runner.run returned, then r.add_part(_r)
CunitChecker_report ==
    /\ pc = "cunit_ret"
    /\ IF SkipParse(result.error_code)
       THEN LET part == ReportPart("cunit", result.error_code, << >>, NoTests)
            IN  /\ r' = Report_add_part(r, part)
                /\ last_r' = part
                /\ parsed' = parsed
                /\ exc' = exc
                /\ pc' = CunitChecker_caller
       ELSE LET res  == CunitParser_parse(result.data)
                part == ReportPart("cunit", result.error_code, res.messages, Tests(res.tests))
            IN  /\ parsed' = TRUE
                /\ IF res.raised # "none"
                   THEN /\ Raise(res.raised)
                        /\ UNCHANGED << r, last_r >>
                   ELSE /\ r' = Report_add_part(r, part)
                        /\ last_r' = part
                        /\ exc' = exc
                        /\ pc' = CunitChecker_caller
    /\ UNCHANGED << backend, calls, tempdir, launched, rcs, scratch >>
    /\ UNCHANGED << dockerVars, vmVars, return_code, data, timed_out, result >>
    /\ UNCHANGED hostVars

\* project.tempdir = None; return r
check_project_return ==
    /\ pc = "finish"
    /\ tempdir' = None
    /\ pc' = "returned"
    /\ UNCHANGED << backend, calls, r, last_r, launched, rcs, exc, scratch >>
    /\ UNCHANGED << dockerVars, vmVars, runVars >>
    /\ UNCHANGED hostVars

\* runner.run hands (error_code, data) back to CunitChecker.run
Return(error_code, d) ==
    /\ result' = Result(error_code, d)
    /\ rcs' = rcs \cup { << "cunit", error_code >> }
    /\ pc' = "cunit_ret"
    /\ exc' = exc

pipeVars == << backend, calls, tempdir, r, last_r, launched >>

\* checker = CunitChecker(backend); checker.run(project) called by a client of
\* the library on a project whose tempdir it set itself: nothing has been
\* compiled into that directory by this call
checker_run ==
    /\ pc \in {"idle", "returned", "raised"}
    /\ calls < MaxCalls
    /\ calls' = calls + 1
    /\ pc' = "cunit"
    /\ tempdir' = "scratch"
    /\ r' = << >>
    /\ last_r' = ReportPart("", 0, << >>, NoTests)
    /\ launched' = << >>
    /\ rcs' = {}
    /\ exc' = "none"
    /\ result' = NoResult
    /\ parsed' = FALSE
    /\ cont' = 0
    /\ cont_file' = NoRemoteFile
    /\ stop_caller' = "none"
    /\ created' = {}
    /\ dlog' = << >>
    /\ timed_out' = FALSE
    /\ return_code' = 0
    /\ data' = PyNone
    /\ vlog' = << >>
    /\ UNCHANGED << backend, scratch, images, img_exe, containers, vm_running, session, remote >>
    /\ UNCHANGED hostVars

(***************************************************************************)
(* unittest.py: DockerRunner                                               *)
(***************************************************************************)
\* the container runtime records a container in a state, or forgets it
SetContainer(cs, c, st) == [x \in DOMAIN cs \cup {c} |-> IF x = c THEN st ELSE cs[x]]
DelContainer(cs, c)     == [x \in DOMAIN cs \ {c} |-> cs[x]]

\* DockerRunner.build_image: existence check, Dockerfile, client.build.
\* A build that fails reports it in the output stream, which is discarded.
build_image ==
    /\ pc = "build_image"
    /\ IF scratch.exe = 0
       THEN /\ Raise("FileNotFoundError")
            /\ UNCHANGED << scratch, images, img_exe, created, dlog >>
       ELSE /\ scratch' = [scratch EXCEPT !.dockerfile = TRUE]
            /\ dlog' = Append(dlog, "build")
            /\ \E outcome \in {"ok", "failed", "error"} :
                 CASE outcome = "ok" ->
                        /\ images' = images \cup {Img}
                        /\ img_exe' = scratch.exe
                        /\ created' = created \cup {"image"}
                        /\ pc' = "create_container" /\ exc' = exc
                   [] outcome = "failed" ->
                        /\ pc' = "create_container" /\ exc' = exc
                        /\ UNCHANGED << images, img_exe, created >>
                   [] outcome = "error" ->
                        /\ Raise("ConnectionError")
                        /\ UNCHANGED << images, img_exe, created >>
    /\ UNCHANGED << pipeVars, rcs, containers, cont, cont_file, stop_caller >>
    /\ UNCHANGED << vmVars, runVars >>
    /\ UNCHANGED hostVars

\* start_container: client.create_container(image=img, ...)
create_container ==
    /\ pc = "create_container"
    /\ dlog' = Append(dlog, "create_container")
    /\ IF Img \notin images
       THEN /\ Raise("APIError")
            /\ UNCHANGED << containers, cont, created >>
       ELSE \E ok \in BOOLEAN :
              IF ok
              THEN /\ cont' = calls
                   /\ containers' = SetContainer(containers, calls, "created")
                   /\ created' = created \cup {"container"}
                   /\ pc' = "start" /\ exc' = exc
              ELSE /\ Raise("APIError")
                   /\ UNCHANGED << containers, cont, created >>
    /\ UNCHANGED << pipeVars, rcs, scratch, images, img_exe, cont_file, stop_caller >>
    /\ UNCHANGED << vmVars, runVars >>
    /\ UNCHANGED hostVars

\* start_container: client.start(container=cont, ...)
client_start ==
    /\ pc = "start"
    /\ dlog' = Append(dlog, "start")
    /\ \E ok \in BOOLEAN :
         IF ok
         THEN /\ containers' = SetContainer(containers, cont, "running")
              /\ pc' = "wait" /\ exc' = exc
         ELSE /\ Raise("APIError")
              /\ UNCHANGED containers
    /\ UNCHANGED << pipeVars, rcs, scratch, images, img_exe, cont, cont_file, stop_caller, created >>
    /\ UNCHANGED << vmVars, runVars >>
    /\ UNCHANGED hostVars

\* what start_container and run do with the outcome of client.wait
AfterWait_timeoutIgnored(outcome, ret_val) ==
    IF outcome = "exit" /\ ret_val # 0
    THEN [next |-> "stop", caller |-> "exit", code |-> ret_val]
    ELSE [next |-> "copy", caller |-> "none", code |-> 0]
AfterWait(outcome, ret_val) ==
    IF outcome = "ReadTimeout"
    THEN [next |-> "stop", caller |-> "timeout", code |-> -1]
    ELSE IF ret_val # 0
    THEN [next |-> "stop", caller |-> "exit", code |-> ret_val]
    ELSE [next |-> "copy", caller |-> "none", code |-> 0]

\* what the executable can have left at /CUnitAutomated-Results.xml
ContainerFiles == {NoRemoteFile} \cup { RemoteFile(calls, c) : c \in ArtifactContents }

\* start_container: client.wait(container=cont, timeout=DOCKER_TIMEOUT)
client_wait ==
    /\ pc = "wait"
    /\ dlog' = Append(dlog, "wait")
    /\ \/ \E ret_val \in ExitCodes, f \in ContainerFiles :
            LET a == AfterWait("exit", ret_val)
            IN  /\ containers' = SetContainer(containers, cont, "exited")
                /\ cont_file' = f
                /\ return_code' = a.code
                /\ stop_caller' = a.caller
                /\ pc' = a.next /\ exc' = exc
                /\ UNCHANGED timed_out
       \/ \E f \in {NoRemoteFile, RemoteFile(calls, EmptyFile), RemoteFile(calls, NotXml)} :
            LET a == AfterWait("ReadTimeout", 0)
            IN  /\ timed_out' = TRUE
                /\ cont_file' = f
                /\ return_code' = a.code
                /\ stop_caller' = a.caller
                /\ pc' = a.next /\ exc' = exc
                /\ UNCHANGED containers
       \/ /\ Raise("ConnectionError")
          /\ UNCHANGED << containers, cont_file, return_code, stop_caller, timed_out >>
    /\ UNCHANGED << pipeVars, rcs, scratch, images, img_exe, cont, created >>
    /\ UNCHANGED << vmVars, data, result, parsed >>
    /\ UNCHANGED hostVars

\* extract_file_from_container: client.copy and the untar in memory.
\* APIError is caught (stop_container, then a ReportPart is returned as the
\* data); any other error propagates.
extract_file_from_container ==
    /\ pc = "copy"
    /\ dlog' = Append(dlog, "copy")
    /\ \/ /\ cont \in DOMAIN containers
          /\ cont_file.present
          /\ data' = Bytes(cont_file.content)
          /\ stop_caller' = "run"
          /\ pc' = "stop" /\ exc' = exc
       \/ /\ stop_caller' = "extract"
          /\ pc' = "stop" /\ exc' = exc
          /\ UNCHANGED data
       \/ /\ Raise("ConnectionError")
          /\ UNCHANGED << data, stop_caller >>
    /\ UNCHANGED << pipeVars, rcs, scratch, images, img_exe, containers, cont, cont_file, created >>
    /\ UNCHANGED << vmVars, return_code, timed_out, result, parsed >>
    /\ UNCHANGED hostVars

\* body of stop_container: the client call that follows op
stop_container_next_noImage(op) ==
    CASE op = "stop" -> "remove_container"
      [] op = "remove_container" -> "done"
      [] OTHER -> "done"
stop_container_next(op) ==
    CASE op = "stop" -> "remove_container"
      [] op = "remove_container" -> "remove_image"
      [] OTHER -> "done"

\* stop_container returns to its call site
stop_container_return ==
    CASE stop_caller \in {"timeout", "exit"} ->
           \* start_container returns (code, None); run returns (error_code, None)
           /\ Return(return_code, PyNone)
           /\ stop_caller' = "none"
           /\ UNCHANGED data
      [] stop_caller = "extract" ->
           \* extract_file_from_container returns ReportPart('cunit', -1, []);
           \* run goes on to its own stop_container
           /\ data' = ReportPartObj
           /\ stop_caller' = "run"
           /\ pc' = "stop" /\ exc' = exc
           /\ UNCHANGED << result, rcs >>
      [] OTHER ->
           \* run returns (0, data)
           /\ Return(0, data)
           /\ stop_caller' = "none"
           /\ UNCHANGED data

AfterStopOp(op) ==
    IF stop_container_next(op) = "done"
    THEN stop_container_return
    ELSE /\ pc' = stop_container_next(op) /\ exc' = exc
         /\ UNCHANGED << result, rcs, data, stop_caller >>

StopOpRaises ==
    /\ Raise("APIError")
    /\ UNCHANGED << result, rcs, data, stop_caller, containers, images, img_exe >>

\* stop_container: client.stop(container=cont)
client_stop ==
    /\ pc = "stop"
    /\ dlog' = Append(dlog, "stop")
    /\ IF cont \notin DOMAIN containers
       THEN StopOpRaises
       ELSE \/ /\ containers' = SetContainer(containers, cont, "exited")
               /\ AfterStopOp("stop")
               /\ UNCHANGED << images, img_exe >>
            \/ StopOpRaises
    /\ UNCHANGED << pipeVars, scratch, cont, cont_file, created >>
    /\ UNCHANGED << vmVars, return_code, timed_out, parsed >>
    /\ UNCHANGED hostVars

\* stop_container: client.remove_container(container=cont)
client_remove_container ==
    /\ pc = "remove_container"
    /\ dlog' = Append(dlog, "remove_container")
    /\ IF cont \notin DOMAIN containers
       THEN StopOpRaises
       ELSE \/ /\ containers' = DelContainer(containers, cont)
               /\ AfterStopOp("remove_container")
               /\ UNCHANGED << images, img_exe >>
            \/ StopOpRaises
    /\ UNCHANGED << pipeVars, scratch, cont, cont_file, created >>
    /\ UNCHANGED << vmVars, return_code, timed_out, parsed >>
    /\ UNCHANGED hostVars

\* stop_container: client.remove_image(image=img)
client_remove_image ==
    /\ pc = "remove_image"
    /\ dlog' = Append(dlog, "remove_image")
    /\ IF Img \notin images
       THEN StopOpRaises
       ELSE \/ /\ images' = images \ {Img}
               /\ img_exe' = 0
               /\ AfterStopOp("remove_image")
               /\ UNCHANGED containers
            \/ StopOpRaises
    /\ UNCHANGED << pipeVars, scratch, cont, cont_file, created >>
    /\ UNCHANGED << vmVars, return_code, timed_out, parsed >>
    /\ UNCHANGED hostVars

(***************************************************************************)
(* unittest.py: VirtualBoxControl, with_started_vm, VMRunner               *)
(***************************************************************************)
\* exit status of the remote "timeout {}s" wrapper when the deadline passes
TimeoutStatus == 124

\* @with_started_vm(vm_name='Testrunner', shutdown_vm_after=False, error_value=(-1, ''))
shutdown_vm_after == FALSE
error_value == Result(-1, EmptyStr)

\* start_VM: "if not self.check_VM()" decides whether VBoxManage startvm is issued
NeedsBoot_always(running) == TRUE
NeedsBoot(running) == ~running

\* with_started_vm: vm.start_VM(); on failure the wrapper returns error_value
start_VM ==
    /\ pc = "start_VM"
    /\ IF NeedsBoot(vm_running)
       THEN \/ /\ vm_running' = TRUE
               /\ vlog' = Append(vlog, "startvm")
               /\ pc' = "connect" /\ exc' = exc
               /\ UNCHANGED << result, rcs >>
            \/ /\ vlog' = Append(vlog, "startvm")
               /\ Return(error_value.error_code, error_value.data)
               /\ UNCHANGED vm_running
       ELSE /\ pc' = "connect" /\ exc' = exc
            /\ UNCHANGED << vm_running, vlog, result, rcs >>
    /\ UNCHANGED << pipeVars, scratch, dockerVars, session, remote >>
    /\ UNCHANGED << return_code, data, timed_out, parsed >>
    /\ UNCHANGED hostVars

\* VMRunner.run: existence check of the executable, then client.connect(...)
vm_connect ==
    /\ pc = "connect"
    /\ IF scratch.exe = 0
       THEN /\ Raise("FileNotFoundError")
            /\ UNCHANGED << session, return_code, data, vlog >>
       ELSE \/ /\ session' = TRUE
               /\ return_code' = 0
               /\ data' = EmptyStr
               /\ vlog' = Append(vlog, "connect")
               /\ pc' = "preclean" /\ exc' = exc
            \/ /\ Raise("SSHException")
               /\ UNCHANGED << session, return_code, data, vlog >>
    /\ UNCHANGED << pipeVars, rcs, scratch, dockerVars, vm_running, remote >>
    /\ UNCHANGED << timed_out, result, parsed >>
    /\ UNCHANGED hostVars

NoRemoteDir == [dir |-> FALSE, exe |-> 0, xml |-> NoRemoteFile]
EmptyRemoteDir == [dir |-> TRUE, exe |-> 0, xml |-> NoRemoteFile]

\* the remote directory after rmtree and mkdir: made anew, nothing in it
\* (Precleaned_keepsFiles: only made where it is missing)
Precleaned_keepsFiles(rd) == [rd EXCEPT !.dir = TRUE]
Precleaned(rd) == EmptyRemoteDir

\* rmtree(sftp, remote_path) tolerating FileNotFoundError, then sftp.mkdir
vm_preclean ==
    /\ pc = "preclean"
    /\ \/ /\ remote' = Precleaned(remote)
          /\ vlog' = Append(vlog, "preclean")
          /\ pc' = "put" /\ exc' = exc
       \/ /\ Raise("IOError")
          /\ UNCHANGED << remote, vlog >>
    /\ UNCHANGED << pipeVars, rcs, scratch, dockerVars, vm_running, session, runVars >>
    /\ UNCHANGED hostVars

\* sftp.put(f, remote_file); sftp.chmod(remote_file, 0o777)
vm_put ==
    /\ pc = "put"
    /\ \/ /\ remote.dir
          /\ remote' = [remote EXCEPT !.exe = scratch.exe]
          /\ vlog' = Append(vlog, "put")
          /\ pc' = "exec" /\ exc' = exc
       \/ /\ Raise("IOError")
          /\ UNCHANGED << remote, vlog >>
    /\ UNCHANGED << pipeVars, rcs, scratch, dockerVars, vm_running, session, runVars >>
    /\ UNCHANGED hostVars

\* client.exec_command('cd ...; timeout {}s {}'); recv_exit_status()
vm_exec ==
    /\ pc = "exec"
    /\ \/ \E rc \in ExitCodes, f \in ContainerFiles :
            /\ return_code' = rc
            /\ remote' = [remote EXCEPT !.xml = IF f.present THEN f ELSE @]
            /\ vlog' = Append(vlog, "exec")
            /\ pc' = "getfo" /\ exc' = exc
            /\ UNCHANGED timed_out
       \/ \E f \in {NoRemoteFile, RemoteFile(calls, EmptyFile), RemoteFile(calls, NotXml)} :
            /\ return_code' = TimeoutStatus
            /\ timed_out' = TRUE
            /\ remote' = [remote EXCEPT !.xml = IF f.present THEN f ELSE @]
            /\ vlog' = Append(vlog, "exec")
            /\ pc' = "getfo" /\ exc' = exc
       \/ /\ Raise("SSHException")
          /\ UNCHANGED << return_code, remote, vlog, timed_out >>
    /\ UNCHANGED << pipeVars, rcs, scratch, dockerVars, vm_running, session >>
    /\ UNCHANGED << data, result, parsed >>
    /\ UNCHANGED hostVars

\* sftp.getfo(remote_file, local_file); FileNotFoundError leaves data = ''
vm_getfo_skipped ==
    /\ pc = "getfo"
    /\ pc' = "rmtree" /\ exc' = exc
    /\ UNCHANGED << data, vlog >>
    /\ UNCHANGED << pipeVars, rcs, scratch, dockerVars, vm_running, session, remote >>
    /\ UNCHANGED << return_code, timed_out, result, parsed >>
    /\ UNCHANGED hostVars
vm_getfo ==
    /\ pc = "getfo"
    /\ \/ /\ data' = IF remote.xml.present THEN Bytes(remote.xml.content) ELSE data
          /\ vlog' = Append(vlog, "getfo")
          /\ pc' = "rmtree" /\ exc' = exc
       \/ /\ Raise("IOError")
          /\ UNCHANGED << data, vlog >>
    /\ UNCHANGED << pipeVars, rcs, scratch, dockerVars, vm_running, session, remote >>
    /\ UNCHANGED << return_code, timed_out, result, parsed >>
    /\ UNCHANGED hostVars

\* self.rmtree(sftp, self.remote_path) after the download
vm_rmtree ==
    /\ pc = "rmtree"
    /\ \/ /\ remote' = NoRemoteDir
          /\ vlog' = Append(vlog, "rmtree")
          /\ pc' = "close" /\ exc' = exc
       \/ /\ Raise("IOError")
          /\ UNCHANGED << remote, vlog >>
    /\ UNCHANGED << pipeVars, rcs, scratch, dockerVars, vm_running, session, runVars >>
    /\ UNCHANGED hostVars

\* client.close(); return return_code, data; the wrapper powers the VM off
\* when shutdown_vm_after is set
vm_close ==
    /\ pc = "close"
    /\ session' = FALSE
    /\ vlog' = IF shutdown_vm_after THEN vlog \o << "close", "stop_VM" >>
               ELSE Append(vlog, "close")
    /\ vm_running' = IF shutdown_vm_after THEN FALSE ELSE vm_running
    /\ Return(return_code, data)
    /\ UNCHANGED << pipeVars, scratch, dockerVars, remote >>
    /\ UNCHANGED << return_code, data, timed_out, parsed >>
    /\ UNCHANGED hostVars

\* runner = VMRunner(shutdown_vm_after=flag); runner.run(project) called by a
\* client of the library on a project it has compiled, or not
VMRunner_run ==
    /\ pc \in {"idle", "cunit_ret", "raised"}
    /\ calls < MaxCalls
    /\ calls' = calls + 1
    /\ \E flag \in BOOLEAN : vmrunner' = VMRunner_init(flag)
    /\ \E compiled \in BOOLEAN :
         scratch' = IF compiled THEN [scratch EXCEPT !.exe = calls'] ELSE scratch
    /\ pc' = "start_VM"
    /\ tempdir' = "scratch"
    /\ launched' = << "VMRunner" >>
    /\ rcs' = {}
    /\ exc' = "none"
    /\ result' = NoResult
    /\ timed_out' = FALSE
    /\ return_code' = 0
    /\ data' = PyNone
    /\ vlog' = << >>
    /\ UNCHANGED << backend, r, last_r, parsed, dockerVars, vm_running, session, remote >>
    /\ UNCHANGED << wk, dirs, files, reg, vmdir, env, probe, proj, pin, pout >>

(***************************************************************************)
(* celery_tasks.py: grading runs under way at the same time.  Each run has *)
(* its own ConCoCt object; the container runtime and the VM are shared.    *)
(* The steps are those of the sections above, reduced to what they do to   *)
(* the scratch directories, the image tags and the remote directory.       *)
(***************************************************************************)
pipelineVars == << backend, calls, pc, tempdir, r, last_r, launched, rcs, exc,
                   scratch, dockerVars, vmVars, runVars >>

Goto(w, next) == wk' = [wk EXCEPT ![w].pc = next]
Fail(w, e) == wk' = [wk EXCEPT ![w].pc = "failed", ![w].exc = e]

WorkerTarget(w) == Target(wk[w].task)
WorkerImage(w) == ImageTag(WorkerTarget(w))
WorkerExe(w) == RemoteFileName(WorkerTarget(w))
ResultsXml == RemoteFileName("CUnitAutomated-Results.xml")

\* t = Task(...); s = Solution(...); w = ConCoCt(backend): the scratch
\* directory is made, then check_env probes the host
ConCoCt_init(w) ==
    /\ wk[w].pc = "idle"
    /\ \E task \in TaskNames, b \in {"docker", "vm"}, d \in TemporaryDirectory(dirs) :
         /\ dirs' = dirs \cup {d}
         /\ files' = IF LdWrites(env) THEN files \cup { << d, w >> } ELSE files
         /\ wk' = [wk EXCEPT ![w] =
                     [ IdleWorker EXCEPT
                         !.task = task, !.backend = b, !.dir = d,
                         !.pc = IF check_env(env) = "ok" THEN "check_project" ELSE "failed",
                         !.exc = IF check_env(env) = "ok" THEN "none"
                                 ELSE "FileNotFoundError" ]]
    /\ UNCHANGED << reg, vmdir, env, probe, pipelineVars, inputVars >>

\* ConCoCt.__del__: self.tempdir.cleanup(), once the run returned or raised
ConCoCt_del(w) ==
    /\ wk[w].pc \in {"finished", "failed"}
    /\ dirs' = dirs \ {wk[w].dir}
    /\ files' = { f \in files : f[1] # wk[w].dir }
    /\ wk' = [wk EXCEPT ![w] = [IdleWorker EXCEPT !.pc = "done"]]
    /\ UNCHANGED << reg, vmdir, env, probe, pipelineVars, inputVars >>

\* check_project up to the unit tests: gcc writes tempdir/target, or a stage
\* exits non-zero and the Report is returned
Worker_check_project(w) ==
    /\ wk[w].pc = "check_project"
    /\ \/ /\ files' = files \cup { << wk[w].dir, w >> }
          /\ Goto(w, IF SelectRunner(wk[w].backend) = "DockerRunner"
                     THEN "build_image" ELSE "preclean")
       \/ /\ Goto(w, "finished")
          /\ UNCHANGED files
    /\ UNCHANGED << dirs, reg, vmdir, env, probe, pipelineVars, inputVars >>

\* DockerRunner.build_image: Dockerfile into tempdir, client.build(tag=img)
Worker_build_image(w) ==
    /\ wk[w].pc = "build_image"
    /\ files' = files \cup { << wk[w].dir, w >> }
    /\ reg' = Put(reg, WorkerImage(w), w)
    /\ Goto(w, "create_container")
    /\ UNCHANGED << dirs, vmdir, env, probe, pipelineVars, inputVars >>

\* client.create_container(image=img): the container gets the executable
\* that the image tagged img holds at this moment
Worker_create_container(w) ==
    /\ wk[w].pc = "create_container"
    /\ IF Has(reg, WorkerImage(w))
       THEN wk' = [wk EXCEPT ![w].pc = "wait", ![w].img_exe = Get(reg, WorkerImage(w))]
       ELSE Fail(w, "APIError")
    /\ UNCHANGED << dirs, files, reg, vmdir, env, probe, pipelineVars, inputVars >>

\* client.start, client.wait: exit status 0, or anything else
Worker_wait(w) ==
    /\ wk[w].pc = "wait"
    /\ \/ Goto(w, "copy")
       \/ Goto(w, "stop_container")
    /\ UNCHANGED << dirs, files, reg, vmdir, env, probe, pipelineVars, inputVars >>

\* extract_file_from_container: the artifact the container's executable wrote
Worker_copy(w) ==
    /\ wk[w].pc = "copy"
    /\ wk' = [wk EXCEPT ![w].pc = "stop_container", ![w].data = wk[w].img_exe]
    /\ UNCHANGED << dirs, files, reg, vmdir, env, probe, pipelineVars, inputVars >>

\* stop_container: client.stop and client.remove_container on the run's
\* container, then client.remove_image(image=img)
Worker_stop_container(w) ==
    /\ wk[w].pc = "stop_container"
    /\ IF Has(reg, WorkerImage(w))
       THEN /\ reg' = Del(reg, WorkerImage(w))
            /\ Goto(w, "finished")
       ELSE /\ Fail(w, "APIError")
            /\ UNCHANGED reg
    /\ UNCHANGED << dirs, files, vmdir, env, probe, pipelineVars, inputVars >>

\* VMRunner.run: client.connect to the running VM, rmtree(sftp, remote_path)
\* tolerating FileNotFoundError, then sftp.mkdir
Worker_preclean(w) ==
    /\ wk[w].pc = "preclean"
    /\ vmdir' = EmptyVmDir
    /\ Goto(w, "put")
    /\ UNCHANGED << dirs, files, reg, env, probe, pipelineVars, inputVars >>

\* sftp.put(f, remote_file); sftp.chmod(remote_file, 0o777)
Worker_put(w) ==
    /\ wk[w].pc = "put"
    /\ IF vmdir.dir
       THEN /\ vmdir' = [vmdir EXCEPT !.files = Put(@, WorkerExe(w), w)]
            /\ Goto(w, "exec")
       ELSE /\ Fail(w, "IOError")
            /\ UNCHANGED vmdir
    /\ UNCHANGED << dirs, files, reg, env, probe, pipelineVars, inputVars >>

\* exec_command('cd {}; timeout {}s {}'): whatever executable is at
\* remote_file runs and writes the artifact next to it; none there, none written
Worker_exec(w) ==
    /\ wk[w].pc = "exec"
    /\ vmdir' = IF vmdir.dir /\ Has(vmdir.files, WorkerExe(w))
                THEN [vmdir EXCEPT !.files = Put(@, ResultsXml, Get(vmdir.files, WorkerExe(w)))]
                ELSE vmdir
    /\ Goto(w, "getfo")
    /\ UNCHANGED << dirs, files, reg, env, probe, pipelineVars, inputVars >>

\* sftp.getfo(remote_file, local_file); FileNotFoundError leaves data = ''
Worker_getfo(w) ==
    /\ wk[w].pc = "getfo"
    /\ wk' = [wk EXCEPT ![w].pc = "rmtree",
                        ![w].data = IF vmdir.dir /\ Has(vmdir.files, ResultsXml)
                                    THEN Get(vmdir.files, ResultsXml) ELSE 0]
    /\ UNCHANGED << dirs, files, reg, vmdir, env, probe, pipelineVars, inputVars >>

\* self.rmtree(sftp, self.remote_path); client.close(); return
Worker_rmtree(w) ==
    /\ wk[w].pc = "rmtree"
    /\ IF vmdir.dir
       THEN /\ vmdir' = NoVmDir
            /\ Goto(w, "finished")
       ELSE /\ Fail(w, "FileNotFoundError")
            /\ UNCHANGED vmdir
    /\ UNCHANGED << dirs, files, reg, env, probe, pipelineVars, inputVars >>

\* check_env on one host: the probe of ConCoCt.__init__ taken alone
ConCoCt_check_env ==
    /\ probe = "pending"
    /\ probe' = check_env(env)
    /\ UNCHANGED << wk, dirs, files, reg, vmdir, env, pipelineVars, inputVars >>

(***************************************************************************)
(* concoct.py: a Project is made by a Task factory and handed to           *)
(* check_project, up to the first tool check_project launches              *)
(***************************************************************************)
\* Task.get_main_project / get_test_project, ending in Project(...)
Task_get_project(kind) ==
    /\ proj.state = "none"
    /\ pc = "idle"
    /\ \E solution \in Solutions, disk \in Disks :
         proj' = [ Project_init(ExampleTask.name,
                                Task_file_list(ExampleTask, kind, solution),
                                ExampleTask.libs,
                                Task_include_list(ExampleTask),
                                disk)
                   EXCEPT !.kind = kind, !.solution = solution, !.disk = disk ]
    /\ UNCHANGED << pipelineVars, wk, dirs, files, reg, vmdir, env, probe, pin, pout, vmrunner >>

Task_get_main_project == Task_get_project("main")
Task_get_test_project == Task_get_project("test")

\* r = w.check_project(p): there is a Project p to hand over
ConCoCt_check_project ==
    /\ proj.state = "made"
    /\ check_project

(***************************************************************************)
(* The three parsers on the outputs their tools can leave                  *)
(***************************************************************************)
\* the sequences over S of length at most n
SeqsUpTo(S, n) == UNION { [1..k -> S] : k \in 0..n }

\* severities cppcheck gives its <error> elements (checker.py, comment of parse)
Severities == {"error", "warning", "style", "performance", "portability", "information"}

\* <error> elements: without location, with one, with a primary and a second
ErrorElements ==
    [ severity : Severities,
      verbose : {"Array index out of bounds"},
      locations : { << >>,
                    << [file |-> "sol.c", line |-> "7"] >>,
                    << [file |-> "sol.c", line |-> "7"], [file |-> "sol.h", line |-> "3"] >> } ]

\* stderr of cppcheck: no XML, or a results document
CppcheckTexts ==
    {CppcheckNotXml} \cup { [wf |-> TRUE, errors |-> es] : es \in SeqsUpTo(ErrorElements, MaxErrors) }

\* stderr of gcc split at '\n': at least one line
GccTexts ==
    SeqsUpTo({LineError, LineEachUndec, LineLd, LineDangerous, LineBlank}, MaxLines) \ {<< >>}

\* CUNIT_RUN_TEST_RECORD elements
TestRecords ==
    { [kind |-> "failure", test |-> "t1", file |-> "test.c", line |-> "12", cond |-> "x > 0"],
      [kind |-> "success", test |-> "t1", file |-> None, line |-> None, cond |-> None],
      [kind |-> "success", test |-> "t2", file |-> None, line |-> None, cond |-> None],
      [kind |-> "neither", test |-> "t3", file |-> None, line |-> None, cond |-> None] }

\* CUNIT_RUN_SUITE elements of the given name: run with its test records,
\* failed as a suite, or with neither child
SuiteElements(name) ==
    { [kind |-> "success", name |-> name, records |-> recs] :
          recs \in SeqsUpTo(TestRecords, MaxRecords) }
      \cup { [kind |-> k, name |-> name, records |-> << >>] : k \in {"failure", "neither"} }

\* what is handed to CunitParser.parse: nothing, an empty file, a file that is
\* no XML, or a results document of up to two suites
CunitTexts ==
    {PyNone, EmptyStr, Bytes(EmptyFile), Bytes(NotXml)}
      \cup { Bytes([empty |-> FALSE, wf |-> TRUE, suites |-> ss]) :
               ss \in {<< >>} \cup { << s1 >> : s1 \in SuiteElements("Suite1") }
                        \cup { << s1, s2 >> : s1 \in SuiteElements("Suite1"),
                                               s2 \in SuiteElements("Suite1")
                                                         \cup SuiteElements("Suite2") } }

ParserInputs ==
    { [tool |-> "cppcheck", text |-> d] : d \in CppcheckTexts }
      \cup { [tool |-> "gcc", text |-> d] : d \in GccTexts }
      \cup { [tool |-> "cunit", text |-> d] : d \in CunitTexts }

\* the call of a parser ended: with the exception named and nothing returned
\* (the tests noted so far stay in list_of_tests), or with the list
Parsed(raised, messages, tests) ==
    [NoOutput EXCEPT !.state = IF raised = "none" THEN "returned" ELSE "raised",
                     !.raised = raised,
                     !.messages = IF raised = "none" THEN messages ELSE << >>,
                     !.tests = tests]

\* messages = self.parser.parse(errs) in CppCheck.check
CppCheckParser_call ==
    /\ pin.tool = "cppcheck" /\ pout.state = "none"
    /\ LET res == CppCheckParser_parse(pin.text)
       IN  pout' = Parsed(res.raised, res.messages, {})
    /\ UNCHANGED << pipelineVars, wk, dirs, files, reg, vmdir, env, probe, proj, pin, vmrunner >>

\* messages = self.parser.parse(errs) in CompilerGcc.compile
CompilerGccParser_call ==
    /\ pin.tool = "gcc" /\ pout.state = "none"
    /\ pout' = Parsed("none", CompilerGccParser_parse(pin.text), {})
    /\ UNCHANGED << pipelineVars, wk, dirs, files, reg, vmdir, env, probe, proj, pin, vmrunner >>

\* messages = self.parser.parse(data) in CunitChecker.run, then
\* self.parser.list_of_tests
CunitParser_call ==
    /\ pin.tool = "cunit" /\ pout.state = "none"
    /\ LET res == CunitParser_parse(pin.text)
       IN  pout' = Parsed(res.raised, res.messages, res.tests)
    /\ UNCHANGED << pipelineVars, wk, dirs, files, reg, vmdir, env, probe, proj, pin, vmrunner >>

(***************************************************************************)
(* celery_tasks.py: the job returns r.to_json()                            *)
(***************************************************************************)
\* return r.to_json() once check_project has returned r
Worker_to_json ==
    /\ pc = "returned"
    /\ pout' = [NoOutput EXCEPT !.state = "json", !.json = Report_to_json(r)]
    /\ pc' = "serialized"
    /\ UNCHANGED << backend, calls, tempdir, r, last_r, launched, rcs, exc, scratch >>
    /\ UNCHANGED << dockerVars, vmVars, runVars >>
    /\ UNCHANGED << wk, dirs, files, reg, vmdir, env, probe, proj, pin, vmrunner >>

(***************************************************************************)
(* Specification                                                           *)
(***************************************************************************)
Next ==
    \/ check_project
    \/ CppCheck_check
    \/ CompilerGcc_compile
    \/ CunitChecker_run
    \/ build_image
    \/ create_container
    \/ client_start
    \/ client_wait
    \/ extract_file_from_container
    \/ client_stop
    \/ client_remove_container
    \/ client_remove_image
    \/ start_VM
    \/ vm_connect
    \/ vm_preclean
    \/ vm_put
    \/ vm_exec
    \/ vm_getfo
    \/ vm_rmtree
    \/ vm_close
    \/ CunitChecker_report
    \/ check_project_return

Spec == Init /\ [][Next]_vars

\* the backends driven through check_project or through the checker alone
NextRun ==
    \/ Next
    \/ checker_run

SpecRun == Init /\ [][NextRun]_vars

\* the job of the queue worker: check_project, then the report as JSON
\* str(report) on the Report check_project returned
Worker_str ==
    /\ pc = "returned"
    /\ pout' = [NoOutput EXCEPT !.state = "str", !.raised = Report_str(r).raised,
                                 !.str = Report_str(r).s]
    /\ pc' = "serialized"
    /\ UNCHANGED << backend, calls, tempdir, r, last_r, launched, rcs, exc, scratch >>
    /\ UNCHANGED << dockerVars, vmVars, runVars >>
    /\ UNCHANGED << wk, dirs, files, reg, vmdir, env, probe, proj, pin, vmrunner >>

NextJson ==
    \/ Next
    \/ Worker_to_json
    \/ Worker_str

SpecJson == Init /\ [][NextJson]_vars

NextWorkers ==
    \E w \in Workers :
        \/ ConCoCt_init(w)
        \/ Worker_check_project(w)
        \/ Worker_build_image(w)
        \/ Worker_create_container(w)
        \/ Worker_wait(w)
        \/ Worker_copy(w)
        \/ Worker_stop_container(w)
        \/ Worker_preclean(w)
        \/ Worker_put(w)
        \/ Worker_exec(w)
        \/ Worker_getfo(w)
        \/ Worker_rmtree(w)
        \/ ConCoCt_del(w)

\* grading runs on one host, with the prerequisites there or libcunit missing
InitWorkers ==
    /\ InitPipeline
    /\ backend = "vm"
    /\ vm_running
    /\ HostIdle
    /\ env \in {GoodEnv, [GoodEnv EXCEPT !.cunit = FALSE]}
    /\ probe = check_env(env)

SpecWorkers == InitWorkers /\ [][NextWorkers]_vars

\* a Project is constructed and checked up to the static analyzer
NextProject ==
    \/ Task_get_main_project
    \/ Task_get_test_project
    \/ ConCoCt_check_project
    \/ CppCheck_check

InitProject ==
    /\ InitPipeline
    /\ backend = "docker"
    /\ vm_running
    /\ HostIdle
    /\ env = GoodEnv
    /\ probe = check_env(GoodEnv)

SpecProject == InitProject /\ [][NextProject]_vars

\* VM runs one after the other, each on a VMRunner of its caller
NextVm ==
    \/ VMRunner_run
    \/ start_VM
    \/ vm_connect
    \/ vm_preclean
    \/ vm_put
    \/ vm_exec
    \/ vm_getfo
    \/ vm_rmtree
    \/ vm_close

InitVm ==
    /\ Init
    /\ backend = "vm"

SpecVm == InitVm /\ [][NextVm]_vars

\* one pipeline, constructed with any backend value
InitBackend ==
    /\ InitPipeline
    /\ HostIdle
    /\ env = GoodEnv
    /\ probe = check_env(GoodEnv)

SpecBackend == InitBackend /\ [][Next]_vars

\* a parser is applied to a text of its tool
NextParsers ==
    \/ CppCheckParser_call
    \/ CompilerGccParser_call
    \/ CunitParser_call

InitParsers ==
    /\ InitPipeline
    /\ backend = "docker"
    /\ vm_running
    /\ wk = [w \in Workers |-> IdleWorker]
    /\ dirs = {} /\ files = {} /\ reg = {} /\ vmdir = NoVmDir
    /\ env = GoodEnv
    /\ probe = check_env(GoodEnv)
    /\ proj = NoProject
    /\ pin \in ParserInputs
    /\ pout = NoOutput
    /\ vmrunner = NoRunner

SpecParsers == InitParsers /\ [][NextParsers]_vars

NextEnv == ConCoCt_check_env

\* a pipeline about to be constructed, for either backend, on any host
InitEnv ==
    /\ InitPipeline
    /\ backend \in {"docker", DefaultBackend}
    /\ vm_running
    /\ HostIdle
    /\ env \in Envs
    /\ probe = "pending"

SpecEnv == InitEnv /\ [][NextEnv]_vars

(***************************************************************************)
(* Properties                                                              *)
(***************************************************************************)
InSeq(x, s) == \E i \in 1..Len(s) : s[i] = x

\* the first a in s comes before every b, and there is a b
Before(s, a, b) ==
    /\ InSeq(b, s)
    /\ \E i \in 1..Len(s) : s[i] = a /\ \A j \in 1..Len(s) : s[j] = b => i < j

RunnerLaunched == InSeq("DockerRunner", launched) \/ InSeq("VMRunner", launched)
BackendUntouched == ~RunnerLaunched /\ dlog = << >> /\ vlog = << >>
StageFailed(stage) == \E e \in rcs : e[1] = stage /\ e[2] # 0
Exited == pc \in {"returned", "raised"}
LastPart == r[Len(r)]

\* C1: short-circuit.  Once cppcheck has returned a non-zero code, neither gcc
\* nor the isolation backend is launched in that call; once gcc has returned a
\* non-zero code, the isolation backend is not launched.
C1_ShortCircuit ==
    /\ StageFailed("cppcheck") => ~InSeq("gcc", launched) /\ BackendUntouched
    /\ StageFailed("gcc") => BackendUntouched

\* C1 witness: a call returned after cppcheck failed
C1_Witness == pc = "returned" /\ StageFailed("cppcheck") /\ launched = << "cppcheck" >>

\* C2: the sources of the returned Report are [cppcheck], [cppcheck, gcc] or
\* [cppcheck, gcc, cunit]; gcc is present iff cppcheck returned 0 and cunit is
\* present iff gcc also returned 0.
C2_ReportOrder ==
    pc = "returned" =>
        /\ [i \in 1..Len(r) |-> r[i].source]
               \in { << "cppcheck" >>, << "cppcheck", "gcc" >>, << "cppcheck", "gcc", "cunit" >> }
        /\ (Len(r) >= 2 <=> << "cppcheck", 0 >> \in rcs)
        /\ (Len(r) = 3 <=> << "gcc", 0 >> \in rcs)

\* C2 witness: all three stages ran and the Report was returned
C2_Witness == pc = "returned" /\ Len(r) = 3 /\ << "gcc", 0 >> \in rcs

\* C3: whenever a stage's tool has exited non-zero, check_project ends by
\* returning (never by raising) a Report whose last part belongs to that stage
\* and carries that exit code.
C3_StageFailureIsData ==
    \A e \in rcs :
        (e[2] # 0 /\ Exited) =>
            /\ pc = "returned"
            /\ Len(r) > 0
            /\ LastPart.source = e[1]
            /\ LastPart.returncode = e[2]

\* C4: when the backend returned a non-zero exit code the unit-test parser is
\* never invoked, check_project does not raise, and the cunit part has that
\* code, no messages and no tests mapping.
C4_NonZeroBackendSkipsParser ==
    (result.set /\ result.error_code # 0) =>
        /\ ~parsed
        /\ pc # "raised"
        /\ pc \in {"finish", "returned"} =>
               /\ Len(r) = 3
               /\ LastPart = ReportPart("cunit", result.error_code, << >>, NoTests)

\* C4 witness: the backend returned a non-zero code together with artifact
\* data and the Report was returned
C4_Witness ==
    /\ pc = "returned"
    /\ result.set /\ result.error_code # 0
    /\ Truthy(result.data)

\* C5: when the backend returned exit code 0 with empty artifact data,
\* check_project returns a Report with a cunit part whose message list is empty.
C5_EmptyArtifactSurfacedAsPart ==
    (result.set /\ result.error_code = 0 /\ ~Truthy(result.data) /\ Exited) =>
        /\ pc = "returned"
        /\ LastPart.source = "cunit"
        /\ LastPart.messages = << >>

\* C6: every value a backend returns is either (0, non-empty bytes) or
\* (non-zero, no artifact).
C6_BackendPostcondition ==
    result.set =>
        \/ /\ result.error_code = 0
           /\ result.data.t = "bytes"
           /\ Truthy(result.data)
        \/ /\ result.error_code # 0
           /\ ~Truthy(result.data)

\* C7: when the container backend's run has exited, by returning or by
\* raising, every container and image that the call created is gone.
C7_ContainerCleanupOnEveryExit ==
    (InSeq("DockerRunner", launched) /\ (result.set \/ pc = "raised")) =>
        /\ "image" \in created => Img \notin images
        /\ "container" \in created => cont \notin DOMAIN containers

\* C8: after a container run returned exit code 0, neither its container nor
\* the image exists, the data is the artifact bytes, and the copy was issued
\* before the container was removed.
C8_SuccessfulRunLeavesNothing ==
    (InSeq("DockerRunner", launched) /\ result.set /\ result.error_code = 0) =>
        /\ cont \notin DOMAIN containers
        /\ Img \notin images
        /\ result.data.t = "bytes"
        /\ Before(dlog, "copy", "remove_container")

\* C8 witness: a container run returned (0, artifact)
C8_Witness ==
    /\ InSeq("DockerRunner", launched)
    /\ result.set /\ result.error_code = 0 /\ Truthy(result.data)
    /\ "container" \in created /\ "image" \in created

\* C9: after the wait of a container run timed out, the copy is never
\* attempted, and when run returns it returns (-1, None) with the container
\* stopped and removed and the image removed, in that order.
C9_TimeoutCleansThenReturns ==
    (InSeq("DockerRunner", launched) /\ timed_out) =>
        /\ ~InSeq("copy", dlog)
        /\ result.set =>
               /\ result = Result(-1, PyNone)
               /\ cont \notin DOMAIN containers
               /\ Img \notin images
               /\ Len(dlog) >= 3
               /\ SubSeq(dlog, Len(dlog) - 2, Len(dlog))
                      = << "stop", "remove_container", "remove_image" >>

\* C9 witness: a container run timed out and run returned
C9_Witness ==
    /\ InSeq("DockerRunner", launched)
    /\ timed_out
    /\ result.set

\* C10: when the isolated execution exceeded its deadline, the backend,
\* container or VM, returns -1 without artifact and the cunit part has
\* returncode -1 and no messages.
C10_TimeoutReportedAsMinusOne ==
    (timed_out /\ result.set) =>
        /\ result.error_code = -1
        /\ ~Truthy(result.data)
        /\ pc = "returned" =>
               /\ LastPart.source = "cunit"
               /\ LastPart.returncode = -1
               /\ LastPart.messages = << >>

\* number of times x occurs in s
Count(x, s) == Cardinality({ i \in 1..Len(s) : s[i] = x })

\* extract_file_from_container caught the APIError of client.copy and its
\* stop_container went through: the ReportPart is what it handed back to run
CopyFailedAndCleaned ==
    /\ InSeq("DockerRunner", launched)
    /\ InSeq("copy", dlog)
    /\ data = ReportPartObj

\* C11: when the container exited with status 0 and the copy of
\* /CUnitAutomated-Results.xml failed, the container is stopped and removed
\* and the image removed exactly once each, and run ends by returning
\* (-1, None).
C11_MissingArtifactCleansOnce ==
    (CopyFailedAndCleaned /\ ~cont_file.present /\ (result.set \/ pc = "raised")) =>
        /\ result = Result(-1, PyNone)
        /\ Count("stop", dlog) = 1
        /\ Count("remove_container", dlog) = 1
        /\ Count("remove_image", dlog) = 1

\* C12: a second stop_container for a container and image that are already
\* gone leaves the runtime as it is and raises nothing.
C12_CleanupIdempotent ==
    ( /\ CopyFailedAndCleaned
      /\ Count("stop", dlog) >= 2
      /\ cont \notin DOMAIN containers
      /\ Img \notin images ) =>
        /\ exc = "none"
        /\ pc # "raised"

\* run(project) of the configured backend has been entered with no file at
\* tempdir/target (a ConnectionError in that situation comes from
\* DockerRunner(), before run is called)
RunEnteredWithoutExecutable ==
    /\ RunnerLaunched
    /\ scratch.exe = 0
    /\ pc \notin {"idle", "cppcheck", "gcc", "cunit"}
    /\ ~(pc = "raised" /\ exc = "ConnectionError")

\* C13: when run(project) is entered with no file at tempdir/target, it ends
\* by raising FileNotFoundError (it never returns a value) and up to then no
\* Dockerfile is written, no client call is issued, no VM is booted and no
\* SSH session is opened.
C13_FailFastOnMissingExecutable ==
    RunEnteredWithoutExecutable =>
        /\ ~result.set
        /\ pc = "raised" => exc = "FileNotFoundError"
        /\ ~scratch.dockerfile
        /\ dlog = << >>
        /\ vlog = << >>
        /\ ~session

\* C14: once VMRunner.run has opened its SSH session, then however run ends
\* (returning or raising from a later step) the remote working directory is
\* deleted and the session is closed.
C14_VmResourcesReclaimed ==
    (InSeq("VMRunner", launched) /\ InSeq("connect", vlog) /\ (result.set \/ pc = "raised")) =>
        /\ ~remote.dir
        /\ ~session

\* the stages of check_project and the steps of the backends they call
InStage == pc \notin {"idle", "returned", "raised"}

\* C15: while check_project runs, project.tempdir is the scratch directory of
\* the pipeline, and once it has exited, by returning or by raising,
\* project.tempdir is None.
C15_TempdirLifecycle ==
    /\ InStage => tempdir = "scratch"
    /\ Exited => tempdir = None

\* the run has a ConCoCt object
Alive(w) == wk[w].pc \notin {"idle", "done"}

\* the run has built its image and not yet removed it
UsesImage(w) ==
    /\ wk[w].backend = "docker"
    /\ wk[w].pc \in {"create_container", "wait", "copy", "stop_container"}

\* C16: any two runs that use the container backend at the same time use
\* different image tags, and the image a run has built stays in the runtime,
\* holding that run's executable, until the run itself removes it.
C16_DistinctImageTags ==
    /\ \A a, b \in Workers :
         (a # b /\ UsesImage(a) /\ UsesImage(b)) => WorkerImage(a) # WorkerImage(b)
    /\ \A w \in Workers :
         UsesImage(w) => Has(reg, WorkerImage(w)) /\ Get(reg, WorkerImage(w)) = w

\* C17: of any two runs that use the VM at the same time, neither loses its
\* uploaded executable to the other's clean-up, and the artifact a run
\* downloads was written by its own executable.
C17_OwnRemoteDirectory ==
    \A w \in Workers :
        /\ (wk[w].backend = "vm" /\ wk[w].pc = "exec") =>
               /\ vmdir.dir
               /\ Has(vmdir.files, WorkerExe(w))
               /\ Get(vmdir.files, WorkerExe(w)) = w
        /\ (wk[w].backend = "vm" /\ Alive(w)) => wk[w].data \in {0, w}

\* C18: every pipeline object has a scratch directory from its construction
\* to its destruction, the directories that exist are exactly those of the
\* pipelines alive, no two pipelines alive share one, and each directory is
\* written only by the run that owns it.
C18_ScratchOwnership ==
    /\ \A a, b \in Workers : (a # b /\ Alive(a) /\ Alive(b)) => wk[a].dir # wk[b].dir
    /\ dirs = { wk[w].dir : w \in { x \in Workers : Alive(x) } }
    /\ \A f \in files : Alive(f[2]) /\ wk[f[2]].dir = f[1]

\* C18 witness: two runs are under way and each has compiled into its
\* scratch directory
C18_Witness ==
    \E a, b \in Workers :
        /\ a # b
        /\ wk[a].pc \in {"build_image", "preclean"}
        /\ wk[b].pc \in {"build_image", "preclean"}
        /\ << wk[a].dir, a >> \in files
        /\ << wk[b].dir, b >> \in files

\* (major, minor) is at least (1, 2) in version order
AtLeast_1_2(version_info) ==
    \/ version_info[1] > 1
    \/ version_info[1] = 1 /\ version_info[2] >= 2

\* the prerequisite an error message of check_env names
Named(msg) ==
    CASE msg = "gcc not found!" -> "gcc"
      [] msg = "cppcheck not found!" -> "cppcheck"
      [] msg = "docker not found!" -> "docker"
      [] msg = "docker found but permission denied!" -> "docker"
      [] msg = "ld not found!" -> "ld"
      [] msg = "cunit not found!" -> "cunit"
      [] msg = "docker-py version to old!" -> "docker-py"

\* the prerequisite is on the host
Present(e, what) ==
    CASE what = "gcc" -> e.gcc
      [] what = "cppcheck" -> e.cppcheck
      [] what = "docker" -> e.docker # "missing"
      [] what = "ld" -> e.ld
      [] what = "cunit" -> e.cunit
      [] what = "docker-py" -> AtLeast_1_2(e.version)

\* the prerequisite is on the host and answers its probe
Usable(e, what) == Present(e, what) /\ (what = "docker" => e.docker = "ok")

Prerequisites == {"gcc", "cppcheck", "docker", "ld", "cunit", "docker-py"}

VersionProbed == probe \in {"ok", "docker-py version to old!"}

MissingFile == \E i \in 1..Len(proj.file_list) : proj.file_list[i] \notin proj.disk

\* C21: a Project constructed with a file_list naming a path that is not an
\* existing file fails with FileNotFoundError, no Project comes out of it,
\* and no analyzer, compiler, container or VM tool is launched.
C21_MissingFileFailsConstruction ==
    (proj.state # "none" /\ MissingFile) =>
        /\ proj.state = "raised"
        /\ proj.exc = "FileNotFoundError"
        /\ pc = "idle"
        /\ launched = << >> /\ dlog = << >> /\ vlog = << >>

\* C21 witness: the test project of a solution whose file is not on disk,
\* while every file of the task is
C21_Witness ==
    /\ proj.state = "raised"
    /\ proj.kind = "test"
    /\ proj.solution = Solution(<< "sol/solution.c" >>)
    /\ proj.disk = AllPaths \ {"sol/solution.c"}

\* the solution hands files over
ProvidesFiles(solution) == solution.given /\ solution.solution_file_list # << >>

\* C22: the file_list a factory builds is the task's common files, then
\* files_main or files_test, then the solution's files when it provides
\* any and the files_student placeholders otherwise; include is the one
\* directory src_root.
C22_FactoryFileList ==
    proj.state # "none" =>
        /\ proj.file_list =
             JoinAll(ExampleTask.files)
               \o JoinAll(IF proj.kind = "main" THEN ExampleTask.files_main
                          ELSE ExampleTask.files_test)
               \o (IF ProvidesFiles(proj.solution) THEN proj.solution.solution_file_list
                   ELSE JoinAll(ExampleTask.files_student))
        /\ proj.state = "made" => proj.include = << src_root >>


\* the members of a serialized Message
MessageFields == {"type", "file", "line", "desc"}

\* member i of the JSON object is part i of the report: its stage name as
\* key, its returncode, and its messages one by one in order
SerializesPart(member, part) ==
    /\ member.key = part.source
    /\ member.value.returncode = part.returncode
    /\ member.value.returncode \in Int
    /\ Len(member.value.messages) = Len(part.messages)
    /\ \A k \in 1..Len(part.messages) : \A f \in MessageFields :
         member.value.messages[k][f].json = "string"
    /\ member.value.tests.present <=> ~part.tests.isNone

\* C23: the JSON form of a Report the pipeline returned has exactly one member
\* per ReportPart, keyed by its stage name, holding the integer returncode and
\* the messages in order; every field of every serialized Message is a string;
\* the tests key is there exactly when the part carries a tests mapping.
C23_ReportJsonForm ==
    pout.state = "json" =>
        /\ Len(pout.json) = Len(r)
        /\ \A i \in 1..Len(r) : SerializesPart(pout.json[i], r[i])

\* reading a JSON string or null back
FromJson(v) == IF v.json = "null" THEN None ELSE v.s

\* the Report a JSON object in the Report JSON form stands for: a part per
\* member in the order written, a tests mapping where there is a tests key
Decode(json) ==
    [i \in 1..Len(json) |->
        ReportPart(json[i].key,
                   json[i].value.returncode,
                   [k \in 1..Len(json[i].value.messages) |->
                       Message(FromJson(json[i].value.messages[k].type),
                               FromJson(json[i].value.messages[k].file),
                               FromJson(json[i].value.messages[k].line),
                               FromJson(json[i].value.messages[k].desc))],
                   IF json[i].value.tests.present
                   THEN Tests(json[i].value.tests.entries)
                   ELSE NoTests)]

\* C24: decoding the JSON form of a Report gives the Report back: stage names
\* in order, return codes, messages in order with all fields, and test maps.
C24_JsonRoundTrip ==
    pout.state = "json" => Decode(pout.json) = r


\* the kinds a Message can have
Kinds == {"error", "warning", "info", "style", "performance", "portability",
          "information", "ignore"}

\* C25: every Message a parser returns for an output of its tool has one of
\* the eight kinds.
C25_MessageKinds ==
    pout.state = "returned" =>
        \A k \in 1..Len(pout.messages) : pout.messages[k].type \in Kinds

\* C25 witness: the three parsers returned messages, among them a portability
\* finding, an ignored compiler line and a failed test
C25_Witness ==
    /\ pout.state = "returned"
    /\ \/ pin.tool = "cppcheck" /\ InSeq("portability", [k \in 1..Len(pout.messages) |-> pout.messages[k].type])
       \/ pin.tool = "gcc" /\ InSeq("ignore", [k \in 1..Len(pout.messages) |-> pout.messages[k].type])
       \/ pin.tool = "cunit" /\ pout.messages # << >>

\* the rules that match the lines of a stderr text: << line number, family
\* (1 compiler, 2 linker), rule number >>
RuleHits(lines) ==
    { t \in (1..Len(lines)) \X {1} \X (1..Len(gcc_patterns)) :
        gcc_match(t[3], lines[t[1]]) # << >> }
      \cup { t \in (1..Len(lines)) \X {2} \X (1..Len(ld_patterns)) :
                ld_match(t[3], lines[t[1]]) # << >> }

\* line by line, the compiler family before the linker family, rule by rule
HitBefore(t, u) ==
    \/ t[1] < u[1]
    \/ t[1] = u[1] /\ t[2] < u[2]
    \/ t[1] = u[1] /\ t[2] = u[2] /\ t[3] < u[3]

\* the Message of a hit: the kind of its rule, the fields from its groups
HitMessage(t, lines) ==
    IF t[2] = 1 THEN RuleMessage(gcc_patterns[t[3]], gcc_match(t[3], lines[t[1]]))
    ELSE RuleMessage(ld_patterns[t[3]], ld_match(t[3], lines[t[1]]))

\* C26: the compiler parser returns one Message per rule that matches, line by
\* line in stderr order, per line the compiler rules in rule order and then the
\* linker rules in rule order; a rule is not skipped for an earlier match, an
\* ignore rule gives a Message too, a line no rule matches gives none.
C26_OneMessagePerMatchingRule ==
    (pin.tool = "gcc" /\ pout.state # "none") =>
        LET hits == RuleHits(pin.text)
        IN  /\ pout.state = "returned"
            /\ Len(pout.messages) = Cardinality(hits)
            /\ \A t \in hits :
                 pout.messages[Cardinality({ u \in hits : HitBefore(u, t) }) + 1]
                     = HitMessage(t, pin.text)

\* C26 witness: a line three compiler rules and a linker rule match, after a
\* line an ignore rule matches
C26_Witness ==
    /\ pin = [tool |-> "gcc", text |-> << LineEachUndec, LineDangerous, LineBlank >>]
    /\ pout.state = "returned"
    /\ Len(pout.messages) = 7
    /\ pout.messages[1].type = "ignore"
    /\ pout.messages[7] = RuleMessage(ld_patterns[2], ld_match(2, LineDangerous))

\* the suites of the results document handed to the unit-test parser
DocSuites == pin.text.content.suites

\* the test records of a results document: << suite number, record number >>
RecordsOf(suites) ==
    { p \in (1..Len(suites)) \X (1..MaxRecords + 1) : p[2] <= Len(suites[p[1]].records) }

RecordAt(p) == DocSuites[p[1]].records[p[2]]

RecordBefore(p, q) == p[1] < q[1] \/ (p[1] = q[1] /\ p[2] < q[2])

\* the results document is well-formed and every suite and record has a verdict
WellFormedReport ==
    /\ pin.tool = "cunit"
    /\ pin.text.t = "bytes" /\ pin.text.content.wf
    /\ \A i \in 1..Len(DocSuites) : DocSuites[i].kind # "neither"
    /\ \A p \in RecordsOf(DocSuites) : RecordAt(p).kind # "neither"

\* C27: for a well-formed test report the unit-test parser returns one error
\* Message per failed test record, in document order, with the record's
\* FILE_NAME and LINE_NUMBER and the description
\* '<suite> - <test> - Condition: <cond>', no Message for a successful record,
\* and tests[suite][test] is false for a failed and true for a successful
\* record (the last record of a test deciding).
C27_UnitTestResults ==
    (WellFormedReport /\ pout.state # "none") =>
        LET recs   == RecordsOf(DocSuites)
            failed == { p \in recs : RecordAt(p).kind = "failure" }
        IN  /\ pout.state = "returned"
            /\ Len(pout.messages) = Cardinality(failed)
            /\ \A p \in failed :
                 pout.messages[Cardinality({ q \in failed : RecordBefore(q, p) }) + 1]
                   = Message("error", RecordAt(p).file, RecordAt(p).line,
                             DocSuites[p[1]].name \o " - " \o RecordAt(p).test
                                 \o " - Condition: " \o RecordAt(p).cond)
            /\ pout.tests =
                 { << DocSuites[p[1]].name, RecordAt(p).test, RecordAt(p).kind = "success" >> :
                     p \in { p \in recs :
                               ~\E q \in recs : /\ RecordBefore(p, q)
                                                /\ DocSuites[q[1]].name = DocSuites[p[1]].name
                                                /\ RecordAt(q).test = RecordAt(p).test } }

\* C27 witness: two suites, a failed and a successful record in each
C27_Witness ==
    /\ WellFormedReport
    /\ pout.state = "returned"
    /\ Len(DocSuites) = 2
    /\ DocSuites[2].name = "Suite2"
    /\ Len(pout.messages) = 2
    /\ pout.tests = { << "Suite1", "t1", FALSE >>, << "Suite1", "t2", TRUE >>,
                      << "Suite2", "t1", FALSE >>, << "Suite2", "t2", TRUE >> }

\* C28: the unit-test parser raises and returns no message list when its input
\* is empty (ValueError), is no XML (ParseError), or holds a suite or a test
\* record with neither a success nor a failure child (AssertionError).
C28_UnitTestParserFails ==
    (pin.tool = "cunit" /\ pout.state # "none" /\ ~WellFormedReport) =>
        /\ pout.state = "raised"
        /\ pout.messages = << >>
        /\ pout.raised =
             IF ~Truthy(pin.text) THEN "ValueError"
             ELSE IF ~pin.text.content.wf THEN "ParseError"
             ELSE "AssertionError"

\* C28 witness: a failed record, then a record with neither child
C28_Witness ==
    /\ pin.tool = "cunit"
    /\ pin.text.t = "bytes" /\ pin.text.content.wf
    /\ Len(DocSuites) = 1
    /\ Len(DocSuites[1].records) = 2
    /\ DocSuites[1].records[1].kind = "failure"
    /\ DocSuites[1].records[2].kind = "neither"
    /\ pout.state = "raised"

\* C29: for an analyzer document the static-analyzer parser returns one Message
\* per error element in document order, kind the severity, description the
\* verbose text, file and line those of the first location, both '' when the
\* element has no location.
C29_OneMessagePerErrorElement ==
    (pin.tool = "cppcheck" /\ pin.text.wf /\ pout.state # "none") =>
        /\ pout.state = "returned"
        /\ Len(pout.messages) = Len(pin.text.errors)
        /\ \A i \in 1..Len(pin.text.errors) :
             LET e == pin.text.errors[i]
                 m == pout.messages[i]
             IN  /\ m.type = e.severity
                 /\ m.desc = e.verbose
                 /\ e.locations = << >> => (m.file = "" /\ m.line = "")
                 /\ e.locations # << >> =>
                      (m.file = Head(e.locations).file /\ m.line = Head(e.locations).line)

\* C29 witness: an element with two locations, then one with none
C29_Witness ==
    /\ pin.tool = "cppcheck" /\ pin.text.wf
    /\ pout.state = "returned"
    /\ Len(pin.text.errors) = 2
    /\ Len(pin.text.errors[1].locations) = 2
    /\ pin.text.errors[2].locations = << >>
    /\ pout.messages[1].file = "sol.c"
    /\ pout.messages[2].file = ""


\* what a VM run that gets to its return statement does to the VM, in order
VmPhases == << "connect", "preclean", "put", "exec", "getfo", "rmtree", "close" >>

\* what one run can have done to the VM so far: the boot if the VM was down,
\* then the phases from the first on
VmRunLogs ==
    { SubSeq(VmPhases, 1, n) : n \in 0..Len(VmPhases) }
      \cup { << "startvm" >> \o SubSeq(VmPhases, 1, n) : n \in 0..Len(VmPhases) }

\* VMRunner.run got to "return return_code, data" and handed the result over
VmRunCompleted == backend = "vm" /\ pc = "cunit_ret" /\ vm_running

\* C30: a VM run does its phases in the order VM ensured running, connect,
\* remote directory cleared and recreated, upload, execution under timeout,
\* download, remote directory deleted, session closed, each at most once and
\* none before its predecessor; a run that completes has done all of them.
C30_VmPhaseOrder ==
    /\ vlog \in VmRunLogs
    /\ pc \in {"connect", "preclean", "put", "exec", "getfo", "rmtree", "close"} => vm_running
    /\ VmRunCompleted => vlog \in { VmPhases, << "startvm" >> \o VmPhases }

\* C30 witness: the second run of a pipeline had to boot the VM and completed
C30_Witness ==
    /\ VmRunCompleted
    /\ calls = 2
    /\ vlog = << "startvm" >> \o VmPhases

\* VBoxManage startvm is issued in this step
BootIssued == vlog' = Append(vlog, "startvm")

\* C31: VBoxManage startvm is issued iff the status query found the VM not
\* running; a session is opened only on a VM found running or booted; when
\* the boot fails run returns (-1, '') with no session opened and no remote
\* file touched.
C31_EnsureVm ==
    /\ [][ /\ pc = "start_VM" => (BootIssued <=> ~vm_running)
           /\ pc # "start_VM" => ~BootIssued
           /\ (session' /\ ~session) => (vm_running /\ vm_running')
           /\ (pc = "start_VM" /\ ~vm_running') =>
                /\ result' = Result(-1, EmptyStr)
                /\ pc' = "cunit_ret"
                /\ UNCHANGED << session, remote >> ]_vars
    /\ [](InSeq("connect", vlog) => vm_running)

\* C31 witness: the VM was down, the boot failed and run has returned
C31_Witness ==
    /\ backend = "vm"
    /\ pc = "cunit_ret"
    /\ ~vm_running
    /\ vlog = << "startvm" >>
    /\ result = Result(-1, EmptyStr)
    /\ ~session


\* the ACPI power-off was issued, right after the session was closed
PoweredOffAfterClose ==
    /\ Len(vlog) >= 2
    /\ vlog[Len(vlog)] = "stop_VM"
    /\ vlog[Len(vlog) - 1] = "close"

\* C32: a VMRunner made with shutdown_vm_after enabled issues the ACPI
\* power-off once its run has closed the session, one made with it disabled
\* never issues it, and the VMRunner of the pipeline leaves the VM running.
C32_PowerOffAsConfigured ==
    /\ (backend = "vm" /\ pc = "cunit_ret" /\ InSeq("close", vlog)) =>
          IF vmrunner.shutdown_vm_after
          THEN PoweredOffAfterClose
          ELSE vm_running
    /\ ~vmrunner.shutdown_vm_after => ~InSeq("stop_VM", vlog)

\* C33: in a Report of check_project a tests mapping is carried only by a
\* cunit part with returncode 0 whose artifact was parsed without error;
\* cppcheck parts, gcc parts and cunit parts with a non-zero returncode carry
\* none.
C33_TestsOnlyOnParsedCunit ==
    \A i \in 1..Len(r) :
        ~r[i].tests.isNone =>
            /\ r[i].source = "cunit"
            /\ r[i].returncode = 0
            /\ parsed
            /\ CunitParser_parse(result.data).raised = "none"
            /\ r[i].tests = Tests(CunitParser_parse(result.data).tests)

\* C33 witness: a returned Report whose cunit part carries the tests of a
\* failed and a passed test
C33_Witness ==
    /\ pc = "returned"
    /\ Len(r) = 3
    /\ r[3].tests = Tests({ << "Suite1", "t1", FALSE >>, << "Suite1", "t2", TRUE >> })
    /\ r[1].tests.isNone /\ r[2].tests.isNone


\* C34: the unit-test stage constructs the DockerRunner iff the pipeline's
\* backend is exactly 'docker'; for every other value, a misspelt or unknown
\* one too, it constructs the VMRunner and goes on to run it without raising;
\* the default backend of a pipeline is among these.
C34_BackendSelection ==
    /\ [][ pc = "cunit" =>
             IF backend = "docker"
             THEN launched' = Append(launched, "DockerRunner")
             ELSE /\ launched' = Append(launched, "VMRunner")
                  /\ pc' = "start_VM"
                  /\ exc' = "none" ]_vars
    /\ [](InSeq("DockerRunner", launched) <=> (RunnerLaunched /\ backend = "docker"))
    /\ [](DefaultBackend # "docker")

\* C34 witness: a pipeline made with an unknown backend value has run the
\* unit tests in the VM
C34_Witness ==
    /\ backend = "lxc"
    /\ pc = "returned"
    /\ launched = << "cppcheck", "gcc", "VMRunner" >>
    /\ InSeq("close", vlog)


\* C35: in a Report of check_project every part but the last has returncode
\* 0; only the last part can carry a non-zero returncode.
C35_OnlyLastPartNonZero ==
    \A i \in 1..Len(r) : i < Len(r) => r[i].returncode = 0

\* C35 witness: a returned Report of three parts, the last with a non-zero
\* returncode
C35_Witness ==
    /\ pc = "returned"
    /\ Len(r) = 3
    /\ r[3].returncode # 0


\* the isolation backend executes an executable in this call: the container
\* made from the image is started, or the uploaded file is run in the VM
ExecutedExecutable ==
    IF InSeq("DockerRunner", launched) /\ InSeq("start", dlog) THEN img_exe
    ELSE IF InSeq("VMRunner", launched) /\ InSeq("exec", vlog) THEN remote.exe
    ELSE calls

\* C36: over the check_project calls of one pipeline the executable the
\* isolation backend executes in a call is the one that call's compile stage
\* wrote, never one an earlier call left behind.
C36_FreshExecutable ==
    (Head(<< "cppcheck" >> \o launched) = "cppcheck" /\ pc \in {"wait", "getfo"}) =>
        ExecutedExecutable = calls


\* the result file the VM run is about to download, or has downloaded
VmDownloads == InSeq("VMRunner", launched) /\ pc \in {"getfo", "rmtree"}

\* C37: in runs against the same VM that do not overlap, the artifact data a
\* run returns was written by the executable uploaded in that run; a result
\* file an earlier run left in the remote directory, also one that aborted
\* before its final clean-up, is never returned by a later run.
C37_ArtifactOfThisRun ==
    /\ [](VmDownloads /\ remote.xml.present =>
            remote.xml.by = calls /\ remote.exe = calls)
    /\ [][InSeq("VMRunner", launched) /\ pc = "getfo" /\ pc' = "rmtree" =>
            data' = IF remote.xml.present /\ remote.xml.by = calls
                    THEN Bytes(remote.xml.content) ELSE EmptyStr]_vars

\* a later run has opened its session and finds in the remote directory the
\* result file of an earlier run that aborted before its final clean-up
C37_Witness ==
    /\ calls = 2 /\ InSeq("VMRunner", launched) /\ pc = "preclean" /\ session
    /\ remote.xml.present /\ remote.xml.by = 1


\* the parser returned a Message for test t of suite s
MessageFor(s, t) ==
    \E i \in 1..Len(pout.messages), p \in RecordsOf(DocSuites) :
        pout.messages[i].desc = s \o " - " \o t \o " - Condition: " \o RecordAt(p).cond

\* a success record was read for test t of suite s
SuccessRead(s, t) ==
    \E p \in RecordsOf(DocSuites) :
        /\ DocSuites[p[1]].name = s
        /\ RecordAt(p).test = t
        /\ RecordAt(p).kind = "success"

\* C38: after CunitParser.parse returns, tests[s][t] is false exactly if the
\* message list holds a Message for (s, t), and true exactly if a success
\* record was read for (s, t) and no Message for it exists, also when several
\* records carry the same suite and test name.
C38_TestsAgreeWithMessages ==
    (WellFormedReport /\ pout.state = "returned") =>
        \A x \in pout.tests :
            /\ x[3] = FALSE <=> MessageFor(x[1], x[2])
            /\ x[3] = TRUE <=> (SuccessRead(x[1], x[2]) /\ ~MessageFor(x[1], x[2]))


\* C39: str() of a Report succeeds for every Report check_project can return,
\* also for Reports whose gcc part holds ignore Messages of rules that name no
\* file, line or description group.
C39_TextOfEveryReport ==
    pout.state = "str" => pout.raised = "none"

====
